---- MODULE Spec2Model ----
(***************************************************************************)
(* A model of the otter chess engine's board: FEN admission (Board::new),  *)
(* the legal move generator, make_move / unmake_move, the zobrist hash and *)
(* the draw test.                                                          *)
(*                                                                         *)
(* A Bitboard (a u64 whose most significant bit is square 0 = a8 and whose *)
(* least significant bit is square 63 = h1) is the set of the squares      *)
(* whose bit is 1: & is \cap, | is \cup, ^ is the symmetric difference and *)
(* ! is the complement in 0..63.                                           *)
(* Option<T> is a sequence: None is << >> and Some(x) is <<x>>.            *)
(* A string is the sequence of its characters.                             *)
(***************************************************************************)
EXTENDS Integers, Sequences, FiniteSets, TLC

\* ------------------------------------------------------------------------
\* core: squares, colours, pieces, bitboards
\* ------------------------------------------------------------------------

BOARD_SIZE == 64

Squares == 0..(BOARD_SIZE - 1)

None == << >>

Some(x) == <<x>>

\* a local of the code: "let v = value;" followed by the statements In(v),
\* the value computed once, before them
Let(value, In(_)) == CHOOSE result \in {In(v) : v \in {value}} : TRUE

Unwrap(o) == o[1]

Colors == {"White", "Black"}

ALL_PIECES == <<"Pawn", "Knight", "Bishop", "Rook", "Queen", "King">>

Pieces == {ALL_PIECES[i] : i \in 1..6}

PROMOTION_PIECES == <<"Knight", "Bishop", "Rook", "Queen">>

opposite(color) == IF color = "White" THEN "Black" ELSE "White"

is_sliding(piece) == piece \in {"Bishop", "Rook", "Queen"}

initial_count(piece) ==
    CASE piece = "Pawn" -> 8
      [] piece = "Knight" -> 2
      [] piece = "Bishop" -> 2
      [] piece = "Rook" -> 2
      [] piece = "Queen" -> 1
      [] piece = "King" -> 1

EMPTY == {}

FULL == Squares

\* MSB >> square: a u64 shifted by 64 or more is an overflow; the inputs of
\* this model never produce such a square (see SquaresInRange).
shifted_board(square) == IF square \in Squares THEN {square} ELSE {}

bit_at(bb, square) == (bb \cap shifted_board(square)) # EMPTY

set_bit_at(bb, square, state) ==
    IF state THEN bb \cup shifted_board(square) ELSE bb \ shifted_board(square)

\* leading_zeros: 64 on the empty board
get_first_square(bb) ==
    IF bb = {} THEN BOARD_SIZE ELSE CHOOSE s \in bb : \A t \in bb : s <= t

\* 63 - trailing_zeros
get_last_square(bb) ==
    IF bb = {} THEN -1 ELSE CHOOSE s \in bb : \A t \in bb : s >= t

count_bits(bb) == Cardinality(bb)

\* the iterator of a bitboard: its squares from the MSB to the LSB
SquareSeq == [i \in 1..BOARD_SIZE |-> i - 1]

BitboardIter(bb) == SelectSeq(SquareSeq, LAMBDA s : s \in bb)

\* Bitboard >> isize (a negative amount shifts left); bits shifted out are lost
Shr(bb, amount) == {s + amount : s \in bb} \cap Squares

RECURSIVE Flatten(_)
Flatten(seqs) == IF seqs = << >> THEN << >> ELSE Head(seqs) \o Flatten(Tail(seqs))

\* ------------------------------------------------------------------------
\* move_generator/masks.rs
\* ------------------------------------------------------------------------

FileOf(s) == s % 8

RankRow(s) == s \div 8

\* 0x7F7F7F7F7F7F7F7F, 0xBFBF..., 0xFDFD..., 0xFEFE...: every square off the file
FileBoundMask_A == {s \in Squares : FileOf(s) # 0}

FileBoundMask_B == {s \in Squares : FileOf(s) # 1}

FileBoundMask_G == {s \in Squares : FileOf(s) # 6}

FileBoundMask_H == {s \in Squares : FileOf(s) # 7}

\* 0x000000000000FF00 and 0x00FF000000000000
RankPositionMask_SECOND == 48..55

RankPositionMask_SEVENTH == 8..15

\* 0xFF000000000000FF
RankPositionMask_PROMOTION == (0..7) \cup (56..63)

\* 0x06 / 0x70 / 0x0E / 0x38 on the first (white) or eighth (black) rank
KINGSIDE_EMPTY == [c \in Colors |-> IF c = "White" THEN {61, 62} ELSE {5, 6}]

QUEENSIDE_EMPTY == [c \in Colors |-> IF c = "White" THEN {57, 58, 59} ELSE {1, 2, 3}]

KINGSIDE_SAFE == [c \in Colors |-> IF c = "White" THEN {60, 61, 62} ELSE {4, 5, 6}]

QUEENSIDE_SAFE == [c \in Colors |-> IF c = "White" THEN {58, 59, 60} ELSE {2, 3, 4}]

\* ------------------------------------------------------------------------
\* board/move_generator/direction.rs
\* ------------------------------------------------------------------------

Dir_N == -8

Dir_E == 1

Dir_S == 8

Dir_W == -1

Dir_NE == Dir_N + Dir_E

Dir_NW == Dir_N + Dir_W

Dir_SE == Dir_S + Dir_E

Dir_SW == Dir_S + Dir_W

DIAGONALS == <<Dir_NE, Dir_NW, Dir_SE, Dir_SW>>

STRAIGHTS == <<Dir_N, Dir_E, Dir_S, Dir_W>>

ALL_DIRECTIONS == <<Dir_N, Dir_NE, Dir_E, Dir_SE, Dir_S, Dir_SW, Dir_W, Dir_NW>>

KING_MOVES ==
    [square \in Squares |->
        LET p == shifted_board(square)
            pa == p \cap FileBoundMask_A
            ph == p \cap FileBoundMask_H
        IN  Shr(pa, Dir_NW) \cup Shr(pa, Dir_W) \cup Shr(pa, Dir_SW)
              \cup Shr(p, Dir_N) \cup Shr(p, Dir_S)
              \cup Shr(ph, Dir_NE) \cup Shr(ph, Dir_E) \cup Shr(ph, Dir_SE)]

KNIGHT_MOVES ==
    [square \in Squares |->
        LET p == shifted_board(square)
            pa == p \cap FileBoundMask_A
            ph == p \cap FileBoundMask_H
            pab == pa \cap FileBoundMask_B
            pgh == ph \cap FileBoundMask_G
        IN  Shr(pab, Dir_NW + Dir_W) \cup Shr(pab, Dir_SW + Dir_W)
              \cup Shr(pa, Dir_NW + Dir_N) \cup Shr(pa, Dir_SW + Dir_S)
              \cup Shr(ph, Dir_NE + Dir_N) \cup Shr(ph, Dir_SE + Dir_S)
              \cup Shr(pgh, Dir_NE + Dir_E) \cup Shr(pgh, Dir_SE + Dir_E)]

PAWN_ATTACKS ==
    [c \in Colors |-> [square \in Squares |->
        LET p == shifted_board(square)
            pa == p \cap FileBoundMask_A
            ph == p \cap FileBoundMask_H
        IN  IF c = "White"
            THEN Shr(pa, Dir_NW) \cup Shr(ph, Dir_NE)
            ELSE Shr(pa, Dir_SW) \cup Shr(ph, Dir_SE)]]

PAWN_SINGLE ==
    [c \in Colors |-> [square \in Squares |->
        IF c = "White" THEN Shr(shifted_board(square), Dir_N)
                       ELSE Shr(shifted_board(square), Dir_S)]]

PAWN_DOUBLE ==
    [c \in Colors |-> [square \in Squares |->
        IF c = "White"
        THEN Shr(shifted_board(square) \cap RankPositionMask_SECOND, Dir_N + Dir_N)
        ELSE Shr(shifted_board(square) \cap RankPositionMask_SEVENTH, Dir_S + Dir_S)]]

\* the ray walked from a square in one direction until the file bound is crossed
RECURSIVE SlideFrom(_, _)
SlideFrom(attack, direction) ==
    LET next == Shr(attack, direction)
    IN  IF /\ ((attack \cap FileBoundMask_A) \cup (next \cap FileBoundMask_H)) # EMPTY
           /\ ((attack \cap FileBoundMask_H) \cup (next \cap FileBoundMask_A)) # EMPTY
        THEN next \cup SlideFrom(next, direction)
        ELSE EMPTY

generate_sliding_attacks(direction) ==
    [square \in Squares |-> SlideFrom(shifted_board(square), direction)]

\* a Vec of (direction, lookup table) pairs
BISHOP_MOVES == [i \in 1..4 |-> <<DIAGONALS[i], generate_sliding_attacks(DIAGONALS[i])>>]

ROOK_MOVES == [i \in 1..4 |-> <<STRAIGHTS[i], generate_sliding_attacks(STRAIGHTS[i])>>]

QUEEN_MOVES ==
    [i \in 1..8 |-> <<ALL_DIRECTIONS[i], generate_sliding_attacks(ALL_DIRECTIONS[i])>>]

\* ------------------------------------------------------------------------
\* board/move_generator/moves.rs
\* ------------------------------------------------------------------------

Quiet == <<"Quiet">>

Capture(captured) == <<"Capture", captured>>

Promotion(promoted) == <<"Promotion", promoted>>

CapturePromotion(captured, promoted) == <<"CapturePromotion", captured, promoted>>

PawnDoubleMove(square) == <<"PawnDoubleMove", square>>

EnPassantCapture(square) == <<"EnPassantCapture", square>>

KingCastle == <<"KingCastle">>

QueenCastle == <<"QueenCastle">>

Move(from, to, piece, flag) == [from |-> from, to |-> to, piece |-> piece, flag |-> flag]

is_capture(m) == m.flag[1] \in {"Capture", "CapturePromotion", "EnPassantCapture"}

\* ------------------------------------------------------------------------
\* board.rs: accessors
\* ------------------------------------------------------------------------

piece_at(b, square) == b.piece_list[square]

active_color(b) == b.game_state.current_turn

inactive_color(b) == opposite(b.game_state.current_turn)

active_pieces(b) == b.colors[b.game_state.current_turn]

inactive_pieces(b) == b.colors[opposite(b.game_state.current_turn)]

all_pieces(b) == b.colors["White"] \cup b.colors["Black"]

en_passant_board(b) ==
    IF b.game_state.en_passant_square = None THEN EMPTY
    ELSE shifted_board(Unwrap(b.game_state.en_passant_square))

CastleRights_get(rights, color, side) ==
    CASE color = "White" /\ side = "Kingside" -> rights.white_kingside
      [] color = "White" /\ side = "Queenside" -> rights.white_queenside
      [] color = "Black" /\ side = "Kingside" -> rights.black_kingside
      [] color = "Black" /\ side = "Queenside" -> rights.black_queenside

CastleRights_set(rights, color, side, value) ==
    CASE color = "White" /\ side = "Kingside" -> [rights EXCEPT !.white_kingside = value]
      [] color = "White" /\ side = "Queenside" -> [rights EXCEPT !.white_queenside = value]
      [] color = "Black" /\ side = "Kingside" -> [rights EXCEPT !.black_kingside = value]
      [] color = "Black" /\ side = "Queenside" -> [rights EXCEPT !.black_queenside = value]

active_kingside_rights(b) ==
    CastleRights_get(b.game_state.castle_rights, b.game_state.current_turn, "Kingside")

active_queenside_rights(b) ==
    CastleRights_get(b.game_state.castle_rights, b.game_state.current_turn, "Queenside")

active_piece_board(b, piece) == b.pieces[piece] \cap b.colors[b.game_state.current_turn]

inactive_piece_board(b, piece) ==
    b.pieces[piece] \cap b.colors[opposite(b.game_state.current_turn)]

\* later pieces of ALL_PIECES overwrite earlier ones on a shared square
build_piece_list(pieces) ==
    [square \in Squares |->
        LET on == {i \in 1..6 : square \in pieces[ALL_PIECES[i]]}
        IN  IF on = {} THEN None
            ELSE Some(ALL_PIECES[CHOOSE i \in on : \A j \in on : j <= i])]

\* ------------------------------------------------------------------------
\* board/move_generator.rs: sliding attacks
\* ------------------------------------------------------------------------

Xor(a, b) == (a \ b) \cup (b \ a)

SlidingTable(piece) ==
    CASE piece = "Bishop" -> BISHOP_MOVES
      [] piece = "Rook" -> ROOK_MOVES
      [] piece = "Queen" -> QUEEN_MOVES

\* the nearest blocker of a ray: towards the MSB for a positive direction
FirstBlocker(direction, blocker_board) ==
    IF direction > 0 THEN get_first_square(blocker_board)
    ELSE get_last_square(blocker_board)

generate_sliding_attack(piece_square, piece, blockers) ==
    LET attacks == SlidingTable(piece)
        clipped(i) ==
            Let(attacks[i][2][piece_square], LAMBDA ray :
                Let(ray \cap blockers, LAMBDA blocker_board :
                    IF blocker_board = EMPTY THEN ray
                    ELSE Xor(ray,
                             attacks[i][2][FirstBlocker(attacks[i][1], blocker_board)])))
    IN  UNION {clipped(i) : i \in DOMAIN attacks}

generate_sliding_attack_at_square(target_square, attacking_square, attacking_piece, blockers) ==
    LET attacks == SlidingTable(attacking_piece)
        hit(i) ==
            Let(attacks[i][2][attacking_square] \cap blockers, LAMBDA blocker_board :
                /\ blocker_board # EMPTY
                /\ FirstBlocker(attacks[i][1], blocker_board) = target_square)
    IN  Let({i \in DOMAIN attacks : hit(i)}, LAMBDA hits :
            IF hits = {} THEN EMPTY
            ELSE Let(CHOOSE k \in hits : \A j \in hits : k <= j, LAMBDA i :
                    Xor(attacks[i][2][attacking_square], attacks[i][2][target_square])))

\* the attack of one opposing piece on the squares around the king
\* (sliders see through the king)
SafeSquareAttack(b, square, king_position) ==
    LET piece == Unwrap(piece_at(b, square))
    IN  CASE piece = "King" -> KING_MOVES[square]
          [] piece = "Knight" -> KNIGHT_MOVES[square]
          [] piece = "Pawn" -> PAWN_ATTACKS[inactive_color(b)][square]
          [] OTHER -> generate_sliding_attack(square, piece, all_pieces(b) \ king_position)

get_safe_king_squares(king_square, b) ==
    FULL \ UNION {SafeSquareAttack(b, square, shifted_board(king_square)) :
                    square \in inactive_pieces(b)}

\* the opposing pieces that attack the king of the side to move
KingAttackers(b, king_square) ==
    (generate_sliding_attack(king_square, "Bishop", all_pieces(b))
        \cap inactive_piece_board(b, "Bishop"))
    \cup (generate_sliding_attack(king_square, "Rook", all_pieces(b))
        \cap inactive_piece_board(b, "Rook"))
    \cup (generate_sliding_attack(king_square, "Queen", all_pieces(b))
        \cap inactive_piece_board(b, "Queen"))
    \cup (KNIGHT_MOVES[king_square] \cap inactive_piece_board(b, "Knight"))
    \cup (PAWN_ATTACKS[active_color(b)][king_square] \cap inactive_piece_board(b, "Pawn"))

capture_mask(b, king_square) ==
    Let(KingAttackers(b, king_square), LAMBDA attackers :
        CASE count_bits(attackers) = 0 -> FULL
          [] count_bits(attackers) = 1 -> attackers
          [] OTHER -> EMPTY)

block_mask(b, king_square) ==
    Let(KingAttackers(b, king_square), LAMBDA attackers :
        CASE count_bits(attackers) = 0 -> FULL
          [] count_bits(attackers) = 1 ->
                Let(get_first_square(attackers), LAMBDA attacker_square :
                    Let(Unwrap(piece_at(b, attacker_square)), LAMBDA attacker_piece :
                        IF is_sliding(attacker_piece)
                        THEN generate_sliding_attack_at_square(
                                king_square, attacker_square, attacker_piece,
                                all_pieces(b))
                        ELSE EMPTY))
          [] OTHER -> EMPTY)

\* generate_moves panics (the process aborts) when the side to move has no
\* king, when three or more pieces attack its king, or when a square of a
\* colour bitboard holds no piece in the mailbox
generate_moves_panics(b) ==
    IF active_piece_board(b, "King") = EMPTY THEN TRUE
    ELSE IF \E square \in all_pieces(b) : piece_at(b, square) = None THEN TRUE
    ELSE count_bits(KingAttackers(b, get_first_square(active_piece_board(b, "King")))) >= 3

\* the opposing sliders that pin the piece on pinned_square to the king
Pinners(b, king_square, pinned_square) ==
    {opposing_square \in inactive_pieces(b) :
        Let(Unwrap(piece_at(b, opposing_square)), LAMBDA opposing_piece :
            /\ is_sliding(opposing_piece)
            /\ pinned_square \in
                 generate_sliding_attack(opposing_square, opposing_piece, all_pieces(b))
            /\ Let(generate_sliding_attack_at_square(
                        king_square, opposing_square, opposing_piece,
                        all_pieces(b) \ shifted_board(pinned_square)),
                   LAMBDA attack_through_pin :
                        /\ attack_through_pin # EMPTY
                        /\ bit_at(attack_through_pin, pinned_square)))}

\* masks[pinned_square]: the pinning ray and the pinner (the last pinner in
\* iteration order overwrites the others), FULL for a piece that is not pinned
pin_mask(b, king_square, square) ==
    IF ~(square \in generate_sliding_attack(king_square, "Queen", all_pieces(b))
                      \cap active_pieces(b))
    THEN FULL
    ELSE Let(Pinners(b, king_square, square), LAMBDA pinners :
            IF pinners = {} THEN FULL
            ELSE Let(get_last_square(pinners), LAMBDA opposing_square :
                    set_bit_at(
                        generate_sliding_attack_at_square(
                            king_square, opposing_square,
                            Unwrap(piece_at(b, opposing_square)),
                            all_pieces(b) \ shifted_board(square)),
                        opposing_square, TRUE)))

\* ------------------------------------------------------------------------
\* board/move_generator.rs: generate_moves
\* ------------------------------------------------------------------------

\* after the capture the capturing pawn stands on the destination and both
\* the origin and the target are vacated; only opposing sliders are tested
EnPassantKingUnderAttack(b, king_square, from_square, en_passant_destination, en_passant_target) ==
    Let(set_bit_at(
            set_bit_at(set_bit_at(all_pieces(b), from_square, FALSE),
                       en_passant_destination, TRUE),
            en_passant_target, FALSE),
        LAMBDA temp_all_pieces :
            \E opposing_square \in inactive_pieces(b) :
                Let(Unwrap(piece_at(b, opposing_square)), LAMBDA opposing_piece :
                    /\ is_sliding(opposing_piece)
                    /\ generate_sliding_attack_at_square(
                            king_square, opposing_square, opposing_piece,
                            temp_all_pieces) # EMPTY))

\* the pushes of a pawn, its single move and its double move known
PawnPushes(color, blocks, from_square, single_move, double_move) ==
    LET pushes ==
            IF (single_move \cap blocks) = EMPTY THEN << >>
            ELSE Let(get_first_square(single_move \cap blocks), LAMBDA single_to_square :
                    IF bit_at(RankPositionMask_PROMOTION, single_to_square)
                    THEN [i \in 1..4 |->
                            Move(from_square, single_to_square, "Pawn",
                                 Promotion(PROMOTION_PIECES[i]))]
                    ELSE <<Move(from_square, single_to_square, "Pawn", Quiet)>>)
        doubles ==
            IF (double_move \cap blocks) = EMPTY THEN << >>
            ELSE <<Move(from_square, get_first_square(double_move \cap blocks), "Pawn",
                        PawnDoubleMove(get_first_square(single_move)))>>
    IN  pushes \o doubles

\* the captures of a pawn on the squares of normal_attacks
PawnAttacks(b, from_square, normal_attacks) ==
    LET attack_to(to_square) ==
            Let(Unwrap(piece_at(b, to_square)), LAMBDA captured_piece :
                IF bit_at(RankPositionMask_PROMOTION, to_square)
                THEN [i \in 1..4 |->
                        Move(from_square, to_square, "Pawn",
                             CapturePromotion(captured_piece, PROMOTION_PIECES[i]))]
                ELSE <<Move(from_square, to_square, "Pawn", Capture(captured_piece))>>)
    IN  Let(BitboardIter(normal_attacks), LAMBDA tos :
            Flatten([i \in 1..Len(tos) |-> attack_to(tos[i])]))

\* the en-passant capture of a pawn, neither pinned nor masked by a check
PawnEnPassant(b, color, king_square, from_square, en_passant_attack) ==
    IF en_passant_attack = EMPTY THEN << >>
    ELSE Let(get_first_square(en_passant_attack), LAMBDA en_passant_destination :
            Let(IF color = "White" THEN en_passant_destination + 8
                ELSE en_passant_destination - 8,
                LAMBDA en_passant_target :
                    IF EnPassantKingUnderAttack(b, king_square, from_square,
                            en_passant_destination, en_passant_target)
                    THEN << >>
                    ELSE <<Move(from_square, en_passant_destination, "Pawn",
                                EnPassantCapture(en_passant_target))>>))

PawnMoves(b, king_square, captures, blocks, from_square) ==
    Let(active_color(b), LAMBDA color :
    Let(pin_mask(b, king_square, from_square), LAMBDA pin :
    Let((PAWN_SINGLE[color][from_square] \cap pin) \ all_pieces(b), LAMBDA single_move :
    Let(IF single_move = EMPTY THEN EMPTY
        ELSE (PAWN_DOUBLE[color][from_square] \cap pin) \ all_pieces(b),
        LAMBDA double_move :
            PawnPushes(color, blocks, from_square, single_move, double_move)
            \o PawnAttacks(b, from_square,
                    PAWN_ATTACKS[color][from_square] \cap captures \cap pin
                        \cap inactive_pieces(b))
            \o PawnEnPassant(b, color, king_square, from_square,
                    PAWN_ATTACKS[color][from_square] \cap en_passant_board(b))))))

PieceMoves(b, king_square, king_move_mask, captures, blocks, from_square) ==
    Let(Unwrap(piece_at(b, from_square)), LAMBDA moving_piece :
        IF moving_piece = "Pawn"
        THEN PawnMoves(b, king_square, captures, blocks, from_square)
        ELSE
        LET reach ==
                CASE moving_piece = "King" -> KING_MOVES[from_square] \cap king_move_mask
                  [] moving_piece = "Knight" ->
                        KNIGHT_MOVES[from_square] \cap (captures \cup blocks)
                  [] OTHER ->
                        generate_sliding_attack(from_square, moving_piece, all_pieces(b))
                            \cap (captures \cup blocks)
            attack_moves ==
                (reach \cap pin_mask(b, king_square, from_square)) \ active_pieces(b)
        IN  Let(BitboardIter(attack_moves), LAMBDA tos :
                [i \in 1..Len(tos) |->
                    Move(from_square, tos[i], moving_piece,
                         IF piece_at(b, tos[i]) = None THEN Quiet
                         ELSE Capture(Unwrap(piece_at(b, tos[i]))))]))

CastleMoves(b, king_square, king_move_mask) ==
    LET color == active_color(b)
        kingside ==
            IF /\ active_kingside_rights(b)
               /\ (KINGSIDE_EMPTY[color] \cap all_pieces(b)) = EMPTY
               /\ (KINGSIDE_SAFE[color] \ king_move_mask) = EMPTY
            THEN <<Move(king_square, king_square + 2, "King", KingCastle)>>
            ELSE << >>
        queenside ==
            IF /\ active_queenside_rights(b)
               /\ (QUEENSIDE_EMPTY[color] \cap all_pieces(b)) = EMPTY
               /\ (QUEENSIDE_SAFE[color] \ king_move_mask) = EMPTY
            THEN <<Move(king_square, king_square - 2, "King", QueenCastle)>>
            ELSE << >>
    IN  kingside \o queenside

\* the moves of every piece and the castles, the masks known
MovesUnderMasks(b, king_square, king_move_mask, captures, blocks) ==
    Let(BitboardIter(active_pieces(b)), LAMBDA froms :
        Flatten([i \in 1..Len(froms) |->
                    PieceMoves(b, king_square, king_move_mask, captures, blocks, froms[i])])
          \o CastleMoves(b, king_square, king_move_mask))

\* the Vec<Move> of a call that does not panic
generate_moves(b) ==
    Let(get_first_square(active_piece_board(b, "King")), LAMBDA king_square :
    Let(get_safe_king_squares(king_square, b), LAMBDA king_move_mask :
    Let(capture_mask(b, king_square), LAMBDA captures :
    Let(block_mask(b, king_square), LAMBDA blocks :
        MovesUnderMasks(b, king_square, king_move_mask, captures, blocks)))))

generate_captures_unfiltered(b) == generate_moves(b)

generate_captures(b) == SelectSeq(generate_moves(b), is_capture)

\* MoveGenerator::in_check: the opposing king is never counted
in_check(b) ==
    \E square \in inactive_pieces(b) :
        LET piece == Unwrap(piece_at(b, square))
            opposing_attacks ==
                CASE piece = "King" -> EMPTY
                  [] piece = "Knight" -> KNIGHT_MOVES[square]
                  [] piece = "Pawn" -> PAWN_ATTACKS[inactive_color(b)][square]
                  [] OTHER -> generate_sliding_attack(square, piece, all_pieces(b))
        IN  (opposing_attacks \cap active_piece_board(b, "King")) # EMPTY

\* ------------------------------------------------------------------------
\* board/castling.rs
\* ------------------------------------------------------------------------

INITIAL_WHITE_KINGSIDE_ROOK == 63

INITIAL_WHITE_QUEENSIDE_ROOK == 56

INITIAL_BLACK_KINGSIDE_ROOK == 7

INITIAL_BLACK_QUEENSIDE_ROOK == 0

initial_rook_square(color, side) ==
    CASE color = "White" /\ side = "Kingside" -> INITIAL_WHITE_KINGSIDE_ROOK
      [] color = "White" /\ side = "Queenside" -> INITIAL_WHITE_QUEENSIDE_ROOK
      [] color = "Black" /\ side = "Kingside" -> INITIAL_BLACK_KINGSIDE_ROOK
      [] color = "Black" /\ side = "Queenside" -> INITIAL_BLACK_QUEENSIDE_ROOK

\* the rights of the moving colour updated, those of the other colour left alone
update_from_move_of_mover(rights, mov, moving_color) ==
    LET king == mov.piece = "King"
        from(side) == mov.from = initial_rook_square(moving_color, side)
        kept(side) == CastleRights_get(rights, moving_color, side) /\ ~king /\ ~from(side)
    IN  CastleRights_set(CastleRights_set(rights, moving_color, "Kingside", kept("Kingside")),
                         moving_color, "Queenside", kept("Queenside"))

update_from_move(rights, mov, moving_color) ==
    LET active_kingside == CastleRights_get(rights, moving_color, "Kingside")
        active_queenside == CastleRights_get(rights, moving_color, "Queenside")
        r1 == IF (active_kingside \/ active_queenside) /\ mov.piece = "King"
              THEN CastleRights_set(
                        CastleRights_set(rights, moving_color, "Kingside", FALSE),
                        moving_color, "Queenside", FALSE)
              ELSE rights
        r2 == IF active_kingside /\ mov.from = initial_rook_square(moving_color, "Kingside")
              THEN CastleRights_set(r1, moving_color, "Kingside", FALSE)
              ELSE r1
        r3 == IF active_queenside /\ mov.from = initial_rook_square(moving_color, "Queenside")
              THEN CastleRights_set(r2, moving_color, "Queenside", FALSE)
              ELSE r2
        inactive_kingside == CastleRights_get(r3, opposite(moving_color), "Kingside")
        inactive_queenside == CastleRights_get(r3, opposite(moving_color), "Queenside")
        r4 == IF /\ mov.flag[1] \in {"Capture", "CapturePromotion"}
                 /\ inactive_kingside
                 /\ mov.to = initial_rook_square(opposite(moving_color), "Kingside")
              THEN CastleRights_set(r3, opposite(moving_color), "Kingside", FALSE)
              ELSE r3
        r5 == IF /\ mov.flag[1] \in {"Capture", "CapturePromotion"}
                 /\ inactive_queenside
                 /\ mov.to = initial_rook_square(opposite(moving_color), "Queenside")
              THEN CastleRights_set(r4, opposite(moving_color), "Queenside", FALSE)
              ELSE r4
    IN  r5

\* ------------------------------------------------------------------------
\* board/zobrist.rs: every table entry is an independent random u64; a hash
\* is the set of the entries XOR-ed into it an odd number of times
\* ------------------------------------------------------------------------

ColorIndex(color) == IF color = "White" THEN 0 ELSE 1

PieceIndex(piece) == CHOOSE i \in 0..5 : ALL_PIECES[i + 1] = piece

SideIndex(side) == IF side = "Kingside" THEN 0 ELSE 1

ZOBRIST_piece(square, piece, color) ==
    <<"pieces", ColorIndex(color), PieceIndex(piece), square>>

ZOBRIST_castling(castle_side, color) ==
    <<"castling", ColorIndex(color), SideIndex(castle_side)>>

ZOBRIST_active(color) == <<"active", ColorIndex(color)>>

ZOBRIST_en_passant(en_passant_square) ==
    IF en_passant_square = None THEN <<"en_passant", BOARD_SIZE>>
    ELSE <<"en_passant", Unwrap(en_passant_square)>>

\* hash ^= key
XorKey(hash, key) == IF key \in hash THEN hash \ {key} ELSE hash \cup {key}

RECURSIVE XorAll(_, _)
XorAll(hash, keys) ==
    IF keys = << >> THEN hash ELSE XorAll(XorKey(hash, Head(keys)), Tail(keys))

\* the keys the loops of zobrist() fold into the hash, in their order
zobrist_keys(b) ==
    LET occupied == SelectSeq(SquareSeq, LAMBDA s : b.piece_list[s] # None)
        square_keys ==
            [i \in 1..Len(occupied) |->
                ZOBRIST_piece(occupied[i], Unwrap(b.piece_list[occupied[i]]),
                    IF bit_at(b.colors["White"], occupied[i]) THEN "White" ELSE "Black")]
        rights == <<<<"White", "Kingside">>, <<"White", "Queenside">>,
                    <<"Black", "Kingside">>, <<"Black", "Queenside">>>>
        held == SelectSeq(rights,
                    LAMBDA r : CastleRights_get(b.game_state.castle_rights, r[1], r[2]))
        castle_keys == [i \in 1..Len(held) |-> ZOBRIST_castling(held[i][2], held[i][1])]
    IN  square_keys \o castle_keys
            \o <<ZOBRIST_active(b.game_state.current_turn),
                 ZOBRIST_en_passant(b.game_state.en_passant_square)>>

\* a hash that also folds in the halfmove clock of the GameState
zobrist_with_clock(b) ==
    XorAll({<<"halfmove", b.game_state.halfmove>>}, zobrist_keys(b))

zobrist(b) == XorAll({}, zobrist_keys(b))

\* ------------------------------------------------------------------------
\* board.rs: make_move, unmake_move, is_drawable
\* ------------------------------------------------------------------------

\* A u32 is kept as the integer its 32 bits are in two's complement: the
\* values up to 2^31 - 1 as themselves, the values from 2^31 to u32::MAX as
\* -2^31 to -1; u32::MAX is -1.

\* n >= k as u32, for a k below 2^31
U32AtLeast(n, k) == n < 0 \/ n >= k

\* n + 1 does not fit the u32: a panic where overflow checks are compiled in
U32IncrementOverflows(n) == n = -1

\* n + 1 as u32 where the sum wraps
U32Increment(n) == IF n = 2147483647 THEN -2147483647 - 1 ELSE n + 1

\* bb.set_bit_at(square, state) on one entry of an array of bitboards
SetBit(boards, index, square, state) ==
    [boards EXCEPT ![index] = set_bit_at(boards[index], square, state)]

make_move(b, m) ==
    LET moving_color == b.game_state.current_turn
        other == opposite(moving_color)
        colors0 == SetBit(SetBit(b.colors, moving_color, m.from, FALSE),
                          moving_color, m.to, TRUE)
        pieces0 == SetBit(SetBit(b.pieces, m.piece, m.from, FALSE), m.piece, m.to, TRUE)
        tag == m.flag[1]
        colors1 ==
            CASE tag \in {"Capture", "CapturePromotion"} -> SetBit(colors0, other, m.to, FALSE)
              [] tag = "EnPassantCapture" -> SetBit(colors0, other, m.flag[2], FALSE)
              [] tag = "KingCastle" ->
                    SetBit(SetBit(colors0, moving_color, m.to + 1, FALSE),
                           moving_color, m.to - 1, TRUE)
              [] tag = "QueenCastle" ->
                    SetBit(SetBit(colors0, moving_color, m.to - 2, FALSE),
                           moving_color, m.to + 1, TRUE)
              [] OTHER -> colors0
        pieces1 ==
            CASE tag = "Promotion" ->
                    SetBit(SetBit(pieces0, m.piece, m.to, FALSE), m.flag[2], m.to, TRUE)
              [] tag = "Capture" ->
                    IF m.piece # m.flag[2] THEN SetBit(pieces0, m.flag[2], m.to, FALSE)
                    ELSE pieces0
              [] tag = "CapturePromotion" ->
                    LET promoted == SetBit(SetBit(pieces0, m.piece, m.to, FALSE),
                                           m.flag[3], m.to, TRUE)
                    IN  IF m.flag[2] # m.flag[3] THEN SetBit(promoted, m.flag[2], m.to, FALSE)
                        ELSE promoted
              [] tag = "EnPassantCapture" -> SetBit(pieces0, "Pawn", m.flag[2], FALSE)
              [] tag = "KingCastle" ->
                    SetBit(SetBit(pieces0, "Rook", m.to + 1, FALSE), "Rook", m.to - 1, TRUE)
              [] tag = "QueenCastle" ->
                    SetBit(SetBit(pieces0, "Rook", m.to - 2, FALSE), "Rook", m.to + 1, TRUE)
              [] OTHER -> pieces0
        state1 ==
            [current_turn |-> other,
             castle_rights |-> update_from_move(b.game_state.castle_rights, m, moving_color),
             en_passant_square |->
                IF tag = "PawnDoubleMove" THEN Some(m.flag[2]) ELSE None,
             halfmove |->
                IF m.piece = "Pawn" \/ tag = "Capture" THEN 0
                ELSE U32Increment(b.game_state.halfmove),
             fullmove |->
                IF moving_color = "Black" THEN U32Increment(b.game_state.fullmove)
                ELSE b.game_state.fullmove]
    IN  [pieces |-> pieces1,
         colors |-> colors1,
         game_state |-> state1,
         piece_list |-> build_piece_list(pieces1),
         move_history |-> Append(b.move_history, <<m, b.game_state>>),
         position_history |-> Append(b.position_history, zobrist(b))]

\* an addition of make_move overflows: halfmove + 1 or fullmove += 1
make_move_overflows(b, m) ==
    \/ /\ m.piece # "Pawn"
       /\ m.flag[1] # "Capture"
       /\ U32IncrementOverflows(b.game_state.halfmove)
    \/ /\ b.game_state.current_turn = "Black"
       /\ U32IncrementOverflows(b.game_state.fullmove)

\* Vec::pop of a stack that is not empty
Pop(stack) == SubSeq(stack, 1, Len(stack) - 1)

\* a position history that is left as it is when a move is taken back
PopNothing(stack) == stack

\* self.position_history.pop()
PopPosition(stack) == Pop(stack)

unmake_move(b) ==
    IF b.move_history = << >> THEN b
    ELSE
    LET m == b.move_history[Len(b.move_history)][1]
        prev_state == b.move_history[Len(b.move_history)][2]
        moving_color == opposite(b.game_state.current_turn)
        other == opposite(moving_color)
        colors0 == SetBit(SetBit(b.colors, moving_color, m.to, FALSE),
                          moving_color, m.from, TRUE)
        pieces0 == SetBit(SetBit(b.pieces, m.piece, m.to, FALSE), m.piece, m.from, TRUE)
        tag == m.flag[1]
        colors1 ==
            CASE tag \in {"Capture", "CapturePromotion"} -> SetBit(colors0, other, m.to, TRUE)
              [] tag = "EnPassantCapture" -> SetBit(colors0, other, m.flag[2], TRUE)
              [] tag = "KingCastle" ->
                    SetBit(SetBit(colors0, moving_color, m.to + 1, TRUE),
                           moving_color, m.to - 1, FALSE)
              [] tag = "QueenCastle" ->
                    SetBit(SetBit(colors0, moving_color, m.to - 2, TRUE),
                           moving_color, m.to + 1, FALSE)
              [] OTHER -> colors0
        pieces1 ==
            CASE tag = "Promotion" -> SetBit(pieces0, m.flag[2], m.to, FALSE)
              [] tag = "Capture" -> SetBit(pieces0, m.flag[2], m.to, TRUE)
              [] tag = "CapturePromotion" ->
                    SetBit(SetBit(pieces0, m.flag[3], m.to, FALSE), m.flag[2], m.to, TRUE)
              [] tag = "EnPassantCapture" -> SetBit(pieces0, "Pawn", m.flag[2], TRUE)
              [] tag = "KingCastle" ->
                    SetBit(SetBit(pieces0, "Rook", m.to + 1, TRUE), "Rook", m.to - 1, FALSE)
              [] tag = "QueenCastle" ->
                    SetBit(SetBit(pieces0, "Rook", m.to - 2, TRUE), "Rook", m.to + 1, FALSE)
              [] OTHER -> pieces0
    IN  [pieces |-> pieces1,
         colors |-> colors1,
         game_state |-> prev_state,
         piece_list |-> build_piece_list(pieces1),
         move_history |-> Pop(b.move_history),
         position_history |-> PopPosition(b.position_history)]

\* the number of entries of the position history equal to the current hash
HistoryMatches(b) ==
    Cardinality({i \in 1..Len(b.position_history) : b.position_history[i] = zobrist(b)})

is_drawable(b) ==
    \/ U32AtLeast(b.game_state.halfmove, 50)
    \/ HistoryMatches(b) >= 3

\* ------------------------------------------------------------------------
\* board/fen.rs and Board::new
\* ------------------------------------------------------------------------

PieceSymbols == {"P", "N", "B", "R", "Q", "K", "p", "n", "b", "r", "q", "k"}

Digits == {"0", "1", "2", "3", "4", "5", "6", "7", "8", "9"}

DigitValue(c) ==
    CASE c = "0" -> 0 [] c = "1" -> 1 [] c = "2" -> 2 [] c = "3" -> 3 [] c = "4" -> 4
      [] c = "5" -> 5 [] c = "6" -> 6 [] c = "7" -> 7 [] c = "8" -> 8 [] c = "9" -> 9

is_ascii_uppercase(c) == c \in {"P", "N", "B", "R", "Q", "K"}

\* Piece::from(char), through to_ascii_uppercase
PieceFromChar(c) ==
    CASE c \in {"P", "p"} -> "Pawn"
      [] c \in {"N", "n"} -> "Knight"
      [] c \in {"B", "b"} -> "Bishop"
      [] c \in {"R", "r"} -> "Rook"
      [] c \in {"Q", "q"} -> "Queen"
      [] c \in {"K", "k"} -> "King"

ColorFromChar(c) == IF is_ascii_uppercase(c) THEN "White" ELSE "Black"

Contains(str, c) == \E i \in 1..Len(str) : str[i] = c

\* str.find(' ').unwrap_or(str.len()), as a count of the characters before it
FirstSpace(str) ==
    IF Contains(str, " ")
    THEN (CHOOSE i \in 1..Len(str) : str[i] = " " /\ \A j \in 1..(i - 1) : str[j] # " ") - 1
    ELSE Len(str)

\* str.split(" "): empty parts are kept
RECURSIVE Split(_)
Split(str) ==
    IF ~Contains(str, " ") THEN <<str>>
    ELSE <<SubSeq(str, 1, FirstSpace(str))>>
            \o Split(SubSeq(str, FirstSpace(str) + 2, Len(str)))

\* the digits 2..8 of the piece data replaced by that many 1's
RECURSIVE ExpandDigits(_)
ExpandDigits(str) ==
    IF str = << >> THEN << >>
    ELSE (IF Head(str) \in {"2", "3", "4", "5", "6", "7", "8"}
          THEN [i \in 1..DigitValue(Head(str)) |-> "1"]
          ELSE <<Head(str)>>) \o ExpandDigits(Tail(str))

\* ((cell){8}/){7}(cell){8}
MatchesPieceData(str) ==
    /\ Len(str) = 71
    /\ \A i \in 1..71 :
        IF i % 9 = 0 THEN str[i] = "/" ELSE str[i] \in PieceSymbols \cup {"1"}

\* -|(K?Q?k?q?)
MatchesCastling(str) ==
    \/ str = <<"-">>
    \/ \E k \in BOOLEAN, q \in BOOLEAN, bk \in BOOLEAN, bq \in BOOLEAN :
        str = (IF k THEN <<"K">> ELSE << >>) \o (IF q THEN <<"Q">> ELSE << >>)
                \o (IF bk THEN <<"k">> ELSE << >>) \o (IF bq THEN <<"q">> ELSE << >>)

\* -|[a-h](3|6)
MatchesEnPassant(str) ==
    \/ str = <<"-">>
    \/ /\ Len(str) = 2
       /\ str[1] \in {"a", "b", "c", "d", "e", "f", "g", "h"}
       /\ str[2] \in {"3", "6"}

AllDigits(str) == \A i \in 1..Len(str) : str[i] \in Digits

\* FEN_REGEX on the expanded string: six fields separated by single spaces
check_valid_fen(fen) ==
    LET first_space == FirstSpace(fen)
        expanded_fen == ExpandDigits(SubSeq(fen, 1, first_space))
                            \o SubSeq(fen, first_space + 1, Len(fen))
        fields == Split(expanded_fen)
    IN  /\ Len(fields) = 6
        /\ MatchesPieceData(fields[1])
        /\ fields[2] \in {<<"w">>, <<"b">>}
        /\ MatchesCastling(fields[3])
        /\ MatchesEnPassant(fields[4])
        /\ AllDigits(fields[5])
        /\ AllDigits(fields[6])

\* "a8", "b8", ..., "h1": the name of every square
ALGEBRAIC_NOTATION ==
    [i \in 1..BOARD_SIZE |->
        <<<<"a", "b", "c", "d", "e", "f", "g", "h">>[((i - 1) % 8) + 1],
          <<"8", "7", "6", "5", "4", "3", "2", "1">>[((i - 1) \div 8) + 1]>>]

\* ALGEBRAIC_NOTATION.iter().position(|s| s == str)
SquareFromNotation(str) ==
    IF \E i \in 1..BOARD_SIZE : ALGEBRAIC_NOTATION[i] = str
    THEN Some((CHOOSE i \in 1..BOARD_SIZE : ALGEBRAIC_NOTATION[i] = str) - 1)
    ELSE None

RECURSIVE StripZeros(_)
StripZeros(str) ==
    IF str # << >> /\ Head(str) = "0" THEN StripZeros(Tail(str)) ELSE str

U32_MAX_DIGITS == <<"4", "2", "9", "4", "9", "6", "7", "2", "9", "5">>

\* lexicographic comparison of two digit strings of the same length
RECURSIVE DigitsGreater(_, _)
DigitsGreater(x, y) ==
    IF x = << >> THEN FALSE
    ELSE IF Head(x) # Head(y) THEN DigitValue(Head(x)) > DigitValue(Head(y))
    ELSE DigitsGreater(Tail(x), Tail(y))

\* str.parse::<u32>() is Err on the empty string and on a value above u32::MAX
ParseU32Fails(str) ==
    \/ str = << >>
    \/ ~AllDigits(str)
    \/ Len(StripZeros(str)) > 10
    \/ Len(StripZeros(str)) = 10 /\ DigitsGreater(StripZeros(str), U32_MAX_DIGITS)

RECURSIVE DigitsValue(_, _)
DigitsValue(str, acc) ==
    IF str = << >> THEN acc ELSE DigitsValue(Tail(str), 10 * acc + DigitValue(Head(str)))

\* str.parse::<u32>() of a string of digits that is no more than u32::MAX:
\* with ten digits left after the leading zeros the value is 10 * high + low,
\* and from 2^31 = 10 * 214748364 + 8 on it is kept less 2^32
ParseU32(str) ==
    Let(StripZeros(str), LAMBDA digits :
        IF Len(digits) < 10 THEN DigitsValue(digits, 0)
        ELSE Let(DigitsValue(SubSeq(digits, 1, 9), 0), LAMBDA high :
             Let(DigitValue(digits[10]), LAMBDA low :
                IF high < 214748364 \/ (high = 214748364 /\ low <= 7)
                THEN 10 * high + low
                ELSE 10 * (high - 429496728) + (low - 16))))

from_fen_segment(segment) ==
    [white_kingside |-> Contains(segment, "K"),
     white_queenside |-> Contains(segment, "Q"),
     black_kingside |-> Contains(segment, "k"),
     black_queenside |-> Contains(segment, "q")]

\* the squares and symbols of the piece data: the index moves right by n on a
\* digit n, stays on a slash and moves by one on a piece
RECURSIVE PlacePieces(_, _)
PlacePieces(str, index) ==
    IF str = << >> THEN {}
    ELSE IF Head(str) \in Digits
         THEN PlacePieces(Tail(str), index + DigitValue(Head(str)))
    ELSE IF Head(str) = "/" THEN PlacePieces(Tail(str), index)
    ELSE {<<index, Head(str)>>} \cup PlacePieces(Tail(str), index + 1)

\* the board built from the six fields, before the legality check
ParseBoard(fen_parts) ==
    LET placed == PlacePieces(fen_parts[1], 0)
        pieces == [p \in Pieces |-> {x[1] : x \in {y \in placed : PieceFromChar(y[2]) = p}}]
        colors == [c \in Colors |-> {x[1] : x \in {y \in placed : ColorFromChar(y[2]) = c}}]
    IN  [pieces |-> pieces,
         colors |-> colors,
         game_state |->
            [current_turn |-> IF fen_parts[2] = <<"w">> THEN "White" ELSE "Black",
             castle_rights |-> from_fen_segment(fen_parts[3]),
             en_passant_square |-> SquareFromNotation(fen_parts[4]),
             halfmove |-> ParseU32(fen_parts[5]),
             fullmove |-> ParseU32(fen_parts[6])],
         piece_list |-> build_piece_list(pieces),
         move_history |-> << >>,
         position_history |-> << >>]

\* the piece counts of one colour are possible (promotions explain the surplus)
RECURSIVE PromotionsCovered(_, _, _)
PromotionsCovered(counts, i, missing_pawns) ==
    IF i > Len(PROMOTION_PIECES) THEN TRUE
    ELSE LET promotable == PROMOTION_PIECES[i]
         IN  IF counts[promotable] <= initial_count(promotable)
             THEN PromotionsCovered(counts, i + 1, missing_pawns)
             ELSE LET promoted_pieces == counts[promotable] - initial_count(promotable)
                  IN  /\ promoted_pieces <= missing_pawns
                      /\ PromotionsCovered(counts, i + 1, missing_pawns - promoted_pieces)

PieceCountsLegal(b, color) ==
    LET counts == [p \in Pieces |->
                    Cardinality({s \in b.colors[color] : b.piece_list[s] = Some(p)})]
    IN  /\ counts["King"] = initial_count("King")
        /\ counts["Pawn"] <= initial_count("Pawn")
        /\ PromotionsCovered(counts, 1, initial_count("Pawn") - counts["Pawn"])

CapturesKing(m) ==
    \/ m.flag[1] = "Capture" /\ m.flag[2] = "King"
    \/ m.flag[1] = "CapturePromotion" /\ m.flag[2] = "King"

\* is_legal_position panics where generate_moves does, once the counts passed
is_legal_position_panics(b) ==
    /\ \A color \in Colors : PieceCountsLegal(b, color)
    /\ generate_moves_panics(b)

is_legal_position(b) ==
    /\ \A color \in Colors : PieceCountsLegal(b, color)
    /\ LET captures == generate_captures(b)
       IN  \A i \in 1..Len(captures) : ~CapturesKing(captures[i])

\* "rnbqkbnr/pppppppp/8/8/8/8/PPPPPPPP/RNBQKBNR w KQkq - 0 1"
DEFAULT_FEN ==
    <<"r", "n", "b", "q", "k", "b", "n", "r", "/", "p", "p", "p", "p", "p", "p", "p",
      "p", "/", "8", "/", "8", "/", "8", "/", "8", "/", "P", "P", "P", "P", "P", "P",
      "P", "P", "/", "R", "N", "B", "Q", "K", "B", "N", "R", " ", "w", " ", "K", "Q",
      "k", "q", " ", "-", " ", "0", " ", "1">>

\* the Board value a call returns; aborted when the call panics instead
NoBoard ==
    [pieces |-> [p \in Pieces |-> EMPTY],
     colors |-> [c \in Colors |-> EMPTY],
     game_state |->
        [current_turn |-> "White",
         castle_rights |-> from_fen_segment(<<"-">>),
         en_passant_square |-> None,
         halfmove |-> 0,
         fullmove |-> 0],
     piece_list |-> [square \in Squares |-> None],
     move_history |-> << >>,
     position_history |-> << >>]

\* Board::default(): the default FEN is valid and legal
DefaultBoard == ParseBoard(Split(DEFAULT_FEN))

Board_new_panics(fen) ==
    IF ~check_valid_fen(fen) THEN FALSE
    ELSE Let(Split(fen), LAMBDA fen_parts :
            IF ParseU32Fails(fen_parts[5]) \/ ParseU32Fails(fen_parts[6]) THEN TRUE
            ELSE Let(ParseBoard(fen_parts), LAMBDA b : is_legal_position_panics(b)))

Board_new(fen) ==
    IF Board_new_panics(fen) THEN NoBoard
    ELSE Let(IF check_valid_fen(fen) THEN Split(fen) ELSE Split(DEFAULT_FEN),
             LAMBDA fen_parts :
                Let(ParseBoard(fen_parts), LAMBDA b :
                    IF ~is_legal_position(b) THEN DefaultBoard ELSE b))

\* ------------------------------------------------------------------------
\* the strings given to Board::new
\* ------------------------------------------------------------------------

\* "r3k2r/p6p/8/8/8/8/P6P/R3K2R w KQkq - 0 1": both sides may castle on both wings
FEN_CASTLES ==
    <<"r", "3", "k", "2", "r", "/", "p", "6", "p", "/", "8", "/", "8", "/", "8", "/",
      "8", "/", "P", "6", "P", "/", "R", "3", "K", "2", "R", " ", "w", " ", "K", "Q",
      "k", "q", " ", "-", " ", "0", " ", "1">>

\* "1n2k3/P7/8/8/8/8/8/4K3 w - - 0 1": a pawn that promotes by pushing or by capturing a knight
FEN_PROMOTION ==
    <<"1", "n", "2", "k", "3", "/", "P", "7", "/", "8", "/", "8", "/", "8", "/", "8",
      "/", "8", "/", "4", "K", "3", " ", "w", " ", "-", " ", "-", " ", "0", " ", "1">>

\* "4k3/8/8/3pP3/8/8/8/4K3 w - d6 0 1": an en-passant capture of the pawn that stands on d5
FEN_EN_PASSANT ==
    <<"4", "k", "3", "/", "8", "/", "8", "/", "3", "p", "P", "3", "/", "8", "/", "8",
      "/", "8", "/", "4", "K", "3", " ", "w", " ", "-", " ", "d", "6", " ", "0", " ",
      "1">>

\* "4k3/4r3/8/8/8/8/4B3/4K3 w - - 0 1": a bishop pinned to its king by a rook
FEN_PINNED ==
    <<"4", "k", "3", "/", "4", "r", "3", "/", "8", "/", "8", "/", "8", "/", "8", "/",
      "4", "B", "3", "/", "4", "K", "3", " ", "w", " ", "-", " ", "-", " ", "0", " ",
      "1">>

\* "4k3/8/8/8/8/8/3PP3/r2BK3 b - - 0 1": black to move; the rook on a1 may capture the bishop with check
FEN_CHECKED ==
    <<"4", "k", "3", "/", "8", "/", "8", "/", "8", "/", "8", "/", "8", "/", "3", "P",
      "P", "3", "/", "r", "2", "B", "K", "3", " ", "b", " ", "-", " ", "-", " ", "0",
      " ", "1">>

\* "8/8/8/8/k7/8/K7/8 w - - 0 1": kings only
FEN_KINGS ==
    <<"8", "/", "8", "/", "8", "/", "8", "/", "k", "7", "/", "8", "/", "K", "7", "/",
      "8", " ", "w", " ", "-", " ", "-", " ", "0", " ", "1">>

\* "4k3/8/8/4P3/8/8/8/4K3 w - d6 0 1": en-passant square d6 with no pawn on d5
FEN_EP_NO_PAWN ==
    <<"4", "k", "3", "/", "8", "/", "8", "/", "4", "P", "3", "/", "8", "/", "8", "/",
      "8", "/", "4", "K", "3", " ", "w", " ", "-", " ", "d", "6", " ", "0", " ", "1">>

\* "4k3/8/8/3nP3/8/8/8/4K3 w - d6 0 1": en-passant square d6 with a knight on d5
FEN_EP_KNIGHT ==
    <<"4", "k", "3", "/", "8", "/", "8", "/", "3", "n", "P", "3", "/", "8", "/", "8",
      "/", "8", "/", "4", "K", "3", " ", "w", " ", "-", " ", "d", "6", " ", "0", " ",
      "1">>

\* "4k3/8/8/3pP3/8/5n2/8/4K3 w - d6 0 1": en-passant square d6 while a knight checks the king of the side to move
FEN_EP_IN_CHECK ==
    <<"4", "k", "3", "/", "8", "/", "8", "/", "3", "p", "P", "3", "/", "8", "/", "5",
      "n", "2", "/", "8", "/", "4", "K", "3", " ", "w", " ", "-", " ", "d", "6", " ",
      "0", " ", "1">>

\* "R3k3/8/8/8/8/5n2/8/4K3 w - - 0 1": white is in check and attacks the black king
FEN_BOTH_IN_CHECK ==
    <<"R", "3", "k", "3", "/", "8", "/", "8", "/", "8", "/", "8", "/", "5", "n", "2",
      "/", "8", "/", "4", "K", "3", " ", "w", " ", "-", " ", "-", " ", "0", " ", "1">>

\* "R3k3/8/8/8/8/8/8/4K3 w - - 0 1": white to move attacks the black king
FEN_KING_EN_PRISE ==
    <<"R", "3", "k", "3", "/", "8", "/", "8", "/", "8", "/", "8", "/", "8", "/", "8",
      "/", "4", "K", "3", " ", "w", " ", "-", " ", "-", " ", "0", " ", "1">>

\* "rnbqkbnr/pppppppp/8/8/8/8/PPPPPPPP/RNBQKBNR - KQkq - 0 1": the side to move is not w or b
FEN_BAD_TURN ==
    <<"r", "n", "b", "q", "k", "b", "n", "r", "/", "p", "p", "p", "p", "p", "p", "p",
      "p", "/", "8", "/", "8", "/", "8", "/", "8", "/", "P", "P", "P", "P", "P", "P",
      "P", "P", "/", "R", "N", "B", "Q", "K", "B", "N", "R", " ", "-", " ", "K", "Q",
      "k", "q", " ", "-", " ", "0", " ", "1">>

\* "4k3/8/8/8/8/8/8/4K2K w - - 0 1": two white kings
FEN_TWO_KINGS ==
    <<"4", "k", "3", "/", "8", "/", "8", "/", "8", "/", "8", "/", "8", "/", "8", "/",
      "4", "K", "2", "K", " ", "w", " ", "-", " ", "-", " ", "0", " ", "1">>

\* "4k3/8/8/8/8/8/8/4K3 w - -  1": the halfmove field is empty
FEN_EMPTY_HALFMOVE ==
    <<"4", "k", "3", "/", "8", "/", "8", "/", "8", "/", "8", "/", "8", "/", "8", "/",
      "4", "K", "3", " ", "w", " ", "-", " ", "-", " ", " ", "1">>

\* "4k3/8/8/8/8/8/8/4K3 w - - 0 4294967296": the fullmove field is u32::MAX + 1
FEN_BIG_FULLMOVE ==
    <<"4", "k", "3", "/", "8", "/", "8", "/", "8", "/", "8", "/", "8", "/", "8", "/",
      "4", "K", "3", " ", "w", " ", "-", " ", "-", " ", "0", " ", "4", "2", "9", "4",
      "9", "6", "7", "2", "9", "6">>

\* "4k3/8/8/8/4r3/3n1n2/8/4K3 w - - 0 1": a rook and two knights attack the king of the side to move
FEN_TRIPLE_CHECK ==
    <<"4", "k", "3", "/", "8", "/", "8", "/", "8", "/", "4", "r", "3", "/", "3", "n",
      "1", "n", "2", "/", "8", "/", "4", "K", "3", " ", "w", " ", "-", " ", "-", " ",
      "0", " ", "1">>

\* "4k3/44/8/8/8/8/8/4K3 w - - 0 1": an empty rank written as two runs of four
FEN_SPLIT_RUN ==
    <<"4", "k", "3", "/", "4", "4", "/", "8", "/", "8", "/", "8", "/", "8", "/", "8", "/",
      "4", "K", "3", " ", "w", " ", "-", " ", "-", " ", "0", " ", "1">>

\* "4k3/8/8/8/8/8/8/4K3 b - - 007 12": a halfmove field with leading zeros
FEN_LEADING_ZEROS ==
    <<"4", "k", "3", "/", "8", "/", "8", "/", "8", "/", "8", "/", "8", "/", "8", "/",
      "4", "K", "3", " ", "b", " ", "-", " ", "-", " ", "0", "0", "7", " ", "1", "2">>

\* "r3k2r/8/8/8/8/8/8/1R2K1R1 b kq - 0 1": white rooks attack b8 and g8
FEN_CASTLE_ATTACKED ==
    <<"r", "3", "k", "2", "r", "/", "8", "/", "8", "/", "8", "/", "8", "/", "8", "/",
      "8", "/", "1", "R", "2", "K", "1", "R", "1", " ", "b", " ", "k", "q", " ", "-",
      " ", "0", " ", "1">>

\* "4k3/8/8/8/8/2n5/4K3/7R w K - 0 1": the kingside right with the king on e2, in check
FEN_CASTLE_OFF_HOME ==
    <<"4", "k", "3", "/", "8", "/", "8", "/", "8", "/", "8", "/", "2", "n", "5", "/",
      "4", "K", "3", "/", "7", "R", " ", "w", " ", "K", " ", "-", " ", "0", " ", "1">>

\* "k7/8/1Q6/8/8/8/1RRBBNKN/QQQQQQQQ b - - 0 1": Black is mated by the largest
\* army the legality check lets through: nine queens, two rooks, bishops and knights
FEN_LARGEST_ARMY ==
    <<"k", "7", "/", "8", "/", "1", "Q", "6", "/", "8", "/", "8", "/", "8", "/",
      "1", "R", "R", "B", "B", "N", "K", "N", "/", "Q", "Q", "Q", "Q", "Q", "Q", "Q", "Q",
      " ", "b", " ", "-", " ", "-", " ", "0", " ", "1">>

\* "8/8/8/K2pP2r/8/8/8/4k3 w - d6 0 1": an en-passant capture that would open the rank between king and rook
FEN_EP_RANK_PIN ==
    <<"8", "/", "8", "/", "8", "/", "K", "2", "p", "P", "2", "r", "/", "8", "/", "8",
      "/", "8", "/", "4", "k", "3", " ", "w", " ", "-", " ", "d", "6", " ", "0", " ",
      "1">>

\* "r3k3/8/8/8/8/8/8/R3K3 w Qq - 0 1": the queenside rooks face each other on the open a-file
FEN_ROOKS_FACE ==
    <<"r", "3", "k", "3", "/", "8", "/", "8", "/", "8", "/", "8", "/", "8", "/", "8",
      "/", "R", "3", "K", "3", " ", "w", " ", "Q", "q", " ", "-", " ", "0", " ", "1">>

\* "4k3/8/8/8/8/8/8/4K3 b - - 0 4294967295": Black to move with the fullmove counter at u32::MAX
FEN_LAST_FULLMOVE ==
    <<"4", "k", "3", "/", "8", "/", "8", "/", "8", "/", "8", "/", "8", "/", "8", "/",
      "4", "K", "3", " ", "b", " ", "-", " ", "-", " ", "0", " ", "4", "2", "9", "4",
      "9", "6", "7", "2", "9", "5">>

FenInputs ==
    {DEFAULT_FEN,
     FEN_CASTLES,
     FEN_PROMOTION,
     FEN_EN_PASSANT,
     FEN_PINNED,
     FEN_CHECKED,
     FEN_KINGS,
     FEN_EP_NO_PAWN,
     FEN_EP_KNIGHT,
     FEN_EP_IN_CHECK,
     FEN_EP_RANK_PIN,
     FEN_ROOKS_FACE,
     FEN_LAST_FULLMOVE,
     FEN_BOTH_IN_CHECK,
     FEN_KING_EN_PRISE,
     FEN_BAD_TURN,
     FEN_TWO_KINGS,
     FEN_EMPTY_HALFMOVE,
     FEN_BIG_FULLMOVE,
     FEN_TRIPLE_CHECK,
     FEN_SPLIT_RUN,
     FEN_LEADING_ZEROS,
     FEN_CASTLE_ATTACKED,
     FEN_CASTLE_OFF_HOME,
     FEN_LARGEST_ARMY}

\* ------------------------------------------------------------------------
\* Board::to_fen
\* ------------------------------------------------------------------------

\* char::from(piece): the uppercase letter of the piece
CharFromPiece(piece) ==
    CASE piece = "Pawn" -> "P"
      [] piece = "Knight" -> "N"
      [] piece = "Bishop" -> "B"
      [] piece = "Rook" -> "R"
      [] piece = "Queen" -> "Q"
      [] piece = "King" -> "K"

to_ascii_lowercase(c) ==
    CASE c = "P" -> "p"
      [] c = "N" -> "n"
      [] c = "B" -> "b"
      [] c = "R" -> "r"
      [] c = "Q" -> "q"
      [] c = "K" -> "k"
      [] OTHER -> c

\* Color::to_char; the symbols it is given are uppercase letters or '1'
to_char(color, c) == IF color = "White" THEN c ELSE to_ascii_lowercase(c)

\* str.replace(from, to): the matches taken from the left, not overlapping
RECURSIVE Replace(_, _, _)
Replace(str, from, to) ==
    IF Len(str) < Len(from) THEN str
    ELSE IF SubSeq(str, 1, Len(from)) = from
         THEN to \o Replace(SubSeq(str, Len(from) + 1, Len(str)), from, to)
         ELSE <<Head(str)>> \o Replace(Tail(str), from, to)

DigitChar(n) == <<"0", "1", "2", "3", "4", "5", "6", "7", "8", "9">>[n + 1]

\* the replacements of to_fen in their order: eight 1's by "8" down to two by "2"
RECURSIVE ReplaceOnes(_, _)
ReplaceOnes(str, n) ==
    IF n < 2 THEN str
    ELSE ReplaceOnes(Replace(str, [i \in 1..n |-> "1"], <<DigitChar(n)>>), n - 1)

\* u32::to_string
RECURSIVE U32ToString(_)
U32ToString(n) ==
    IF n < 0
    THEN Let(n + 2147483647 + 1, LAMBDA m :
            U32ToString((m \div 10) + 214748364 + (((m % 10) + 8) \div 10))
                \o <<DigitChar(((m % 10) + 8) % 10)>>)
    ELSE IF n < 10 THEN <<DigitChar(n)>>
    ELSE U32ToString(n \div 10) \o <<DigitChar(n % 10)>>

\* CastleRights::to_fen_segment, the Display of the rights
to_fen_segment(rights) ==
    Let((IF rights.white_kingside THEN <<"K">> ELSE << >>)
            \o (IF rights.white_queenside THEN <<"Q">> ELSE << >>)
            \o (IF rights.black_kingside THEN <<"k">> ELSE << >>)
            \o (IF rights.black_queenside THEN <<"q">> ELSE << >>),
        LAMBDA s : IF s = << >> THEN <<"-">> ELSE s)

\* the character pushed for one square, and the slash after a rank
SquareChars(b, square) ==
    Let(IF b.piece_list[square] = None THEN "1"
        ELSE CharFromPiece(Unwrap(b.piece_list[square])),
        LAMBDA sym :
            <<IF bit_at(b.colors["White"], square) THEN to_char("White", sym)
              ELSE IF bit_at(b.colors["Black"], square) THEN to_char("Black", sym)
              ELSE sym>>
            \o (IF (square + 1) % 8 = 0 THEN <<"/">> ELSE << >>))

to_fen(b) ==
    Let(ReplaceOnes(Flatten([i \in 1..BOARD_SIZE |-> SquareChars(b, i - 1)]), 8),
        LAMBDA placement :
            SubSeq(placement, 1, Len(placement) - 1)
            \o <<" ">>
            \o <<IF active_color(b) = "White" THEN "w" ELSE "b">>
            \o <<" ">>
            \o to_fen_segment(b.game_state.castle_rights)
            \o <<" ">>
            \o (IF b.game_state.en_passant_square = None THEN <<"-">>
                ELSE ALGEBRAIC_NOTATION[Unwrap(b.game_state.en_passant_square) + 1])
            \o <<" ">>
            \o U32ToString(b.game_state.halfmove)
            \o <<" ">>
            \o U32ToString(b.game_state.fullmove))

\* ------------------------------------------------------------------------
\* search/alpha_beta.rs: scores
\* ------------------------------------------------------------------------

INFINITY == 30000

CHECKMATE == 25000

CHECKMATE_THRESHOLD == 20000

DRAW == 0

\* u8::MAX, also the largest ply
MAX_DEPTH == 255

\* Score is i16: the value a 16-bit addition or negation leaves
WrapScore(n) == ((n + 32768) % 65536) - 32768

\* the exact result does not fit Score
Overflows(n) == WrapScore(n) # n

\* the read conversion with the sign of the write conversion
convert_score_get_adding(score, ply) ==
    IF score > CHECKMATE_THRESHOLD THEN WrapScore(score + ply)
    ELSE IF score < -CHECKMATE_THRESHOLD THEN WrapScore(score - ply)
    ELSE score

convert_score_get(score, ply) ==
    IF score > CHECKMATE_THRESHOLD THEN WrapScore(score - ply)
    ELSE IF score < -CHECKMATE_THRESHOLD THEN WrapScore(score + ply)
    ELSE score

convert_score_get_overflows(score, ply) ==
    IF score > CHECKMATE_THRESHOLD THEN Overflows(score - ply)
    ELSE IF score < -CHECKMATE_THRESHOLD THEN Overflows(score + ply)
    ELSE FALSE

convert_score_insert(score, ply) ==
    IF score > CHECKMATE_THRESHOLD THEN WrapScore(score + ply)
    ELSE IF score < -CHECKMATE_THRESHOLD THEN WrapScore(score - ply)
    ELSE score

convert_score_insert_overflows(score, ply) ==
    IF score > CHECKMATE_THRESHOLD THEN Overflows(score + ply)
    ELSE IF score < -CHECKMATE_THRESHOLD THEN Overflows(score - ply)
    ELSE FALSE

\* ------------------------------------------------------------------------
\* search/evaluate.rs and search/tables.rs: the static evaluation
\* ------------------------------------------------------------------------

\* material values ten times too large
material_value_tenfold(piece) ==
    CASE piece = "Pawn" -> 1000
      [] piece = "Knight" -> 3000
      [] piece = "Bishop" -> 3000
      [] piece = "Rook" -> 5000
      [] piece = "Queen" -> 9000
      [] piece = "King" -> 0

material_value(piece) ==
    CASE piece = "Pawn" -> 100
      [] piece = "Knight" -> 300
      [] piece = "Bishop" -> 300
      [] piece = "Rook" -> 500
      [] piece = "Queen" -> 900
      [] piece = "King" -> 0

\* the tables of White given to both colours
piece_square_table_of_white(piece, color) ==
    CASE piece = "Pawn" /\ color = "White" ->
            <<  0,   0,   0,   0,   0,   0,   0,   0,
               50,  50,  50,  50,  50,  50,  50,  50,
               10,  10,  20,  30,  30,  20,  10,  10,
                5,   5,  10,  25,  25,  10,   5,   5,
                0,   0,   0,  20,  20,   0,   0,   0,
                5,  -5, -10,   0,   0, -10,  -5,   5,
                5,  10,  10, -20, -20,  10,  10,   5,
                0,   0,   0,   0,   0,   0,   0,   0>>
      [] piece = "Pawn" /\ color = "Black" ->
            <<  0,   0,   0,   0,   0,   0,   0,   0,
               50,  50,  50,  50,  50,  50,  50,  50,
               10,  10,  20,  30,  30,  20,  10,  10,
                5,   5,  10,  25,  25,  10,   5,   5,
                0,   0,   0,  20,  20,   0,   0,   0,
                5,  -5, -10,   0,   0, -10,  -5,   5,
                5,  10,  10, -20, -20,  10,  10,   5,
                0,   0,   0,   0,   0,   0,   0,   0>>
      [] piece = "Knight" /\ color = "White" ->
            <<-50, -40, -30, -30, -30, -30, -40, -50,
              -40, -20,   0,   0,   0,   0, -20, -40,
              -30,   0,  10,  15,  15,  10,   0, -30,
              -30,   5,  15,  20,  20,  15,   5, -30,
              -30,   0,  15,  20,  20,  15,   0, -30,
              -30,   5,  10,  15,  15,  10,   5, -30,
              -40, -20,   0,   5,   5,   0, -20, -40,
              -50, -40, -30, -30, -30, -30, -40, -50>>
      [] piece = "Knight" /\ color = "Black" ->
            <<-50, -40, -30, -30, -30, -30, -40, -50,
              -40, -20,   0,   0,   0,   0, -20, -40,
              -30,   0,  10,  15,  15,  10,   0, -30,
              -30,   5,  15,  20,  20,  15,   5, -30,
              -30,   0,  15,  20,  20,  15,   0, -30,
              -30,   5,  10,  15,  15,  10,   5, -30,
              -40, -20,   0,   5,   5,   0, -20, -40,
              -50, -40, -30, -30, -30, -30, -40, -50>>
      [] piece = "Bishop" /\ color = "White" ->
            <<-20, -10, -10, -10, -10, -10, -10, -20,
              -10,   0,   0,   0,   0,   0,   0, -10,
              -10,   0,   5,  10,  10,   5,   0, -10,
              -10,   5,   5,  10,  10,   5,   5, -10,
              -10,   0,  10,  10,  10,  10,   0, -10,
              -10,  10,  10,  10,  10,  10,  10, -10,
              -10,   5,   0,   0,   0,   0,   5, -10,
              -20, -10, -10, -10, -10, -10, -10, -20>>
      [] piece = "Bishop" /\ color = "Black" ->
            <<-20, -10, -10, -10, -10, -10, -10, -20,
              -10,   0,   0,   0,   0,   0,   0, -10,
              -10,   0,   5,  10,  10,   5,   0, -10,
              -10,   5,   5,  10,  10,   5,   5, -10,
              -10,   0,  10,  10,  10,  10,   0, -10,
              -10,  10,  10,  10,  10,  10,  10, -10,
              -10,   5,   0,   0,   0,   0,   5, -10,
              -20, -10, -10, -10, -10, -10, -10, -20>>
      [] piece = "Rook" /\ color = "White" ->
            <<  0,   0,   0,   0,   0,   0,   0,   0,
                5,  10,  10,  10,  10,  10,  10,   5,
               -5,   0,   0,   0,   0,   0,   0,  -5,
               -5,   0,   0,   0,   0,   0,   0,  -5,
               -5,   0,   0,   0,   0,   0,   0,  -5,
               -5,   0,   0,   0,   0,   0,   0,  -5,
               -5,   0,   0,   0,   0,   0,   0,  -5,
                0,   0,   0,   5,   5,   0,   0,   0>>
      [] piece = "Rook" /\ color = "Black" ->
            <<  0,   0,   0,   0,   0,   0,   0,   0,
                5,  10,  10,  10,  10,  10,  10,   5,
               -5,   0,   0,   0,   0,   0,   0,  -5,
               -5,   0,   0,   0,   0,   0,   0,  -5,
               -5,   0,   0,   0,   0,   0,   0,  -5,
               -5,   0,   0,   0,   0,   0,   0,  -5,
               -5,   0,   0,   0,   0,   0,   0,  -5,
                0,   0,   0,   5,   5,   0,   0,   0>>
      [] piece = "Queen" /\ color = "White" ->
            <<-20, -10, -10,  -5,  -5, -10, -10, -20,
              -10,   0,   0,   0,   0,   0,   0, -10,
              -10,   0,   5,   5,   5,   5,   0, -10,
               -5,   0,   5,   5,   5,   5,   0,  -5,
                0,   0,   5,   5,   5,   5,   0,  -5,
              -10,   5,   5,   5,   5,   5,   0, -10,
              -10,   0,   5,   0,   0,   0,   0, -10,
              -20, -10, -10,  -5,  -5, -10, -10, -20>>
      [] piece = "Queen" /\ color = "Black" ->
            <<-20, -10, -10,  -5,  -5, -10, -10, -20,
              -10,   0,   0,   0,   0,   0,   0, -10,
              -10,   0,   5,   5,   5,   5,   0, -10,
               -5,   0,   5,   5,   5,   5,   0,  -5,
                0,   0,   5,   5,   5,   5,   0,  -5,
              -10,   5,   5,   5,   5,   5,   0, -10,
              -10,   0,   5,   0,   0,   0,   0, -10,
              -20, -10, -10,  -5,  -5, -10, -10, -20>>
      [] piece = "King" /\ color = "White" ->
            <<-30, -40, -40, -50, -50, -40, -40, -30,
              -30, -40, -40, -50, -50, -40, -40, -30,
              -30, -40, -40, -50, -50, -40, -40, -30,
              -30, -40, -40, -50, -50, -40, -40, -30,
              -20, -30, -30, -40, -40, -30, -30, -20,
              -10, -20, -20, -20, -20, -20, -20, -10,
               20,  20,   0,   0,   0,   0,  20,  20,
               20,  30,  10,   0,   0,  10,  30,  20>>
      [] piece = "King" /\ color = "Black" ->
            <<-30, -40, -40, -50, -50, -40, -40, -30,
              -30, -40, -40, -50, -50, -40, -40, -30,
              -30, -40, -40, -50, -50, -40, -40, -30,
              -30, -40, -40, -50, -50, -40, -40, -30,
              -20, -30, -30, -40, -40, -30, -30, -20,
              -10, -20, -20, -20, -20, -20, -20, -10,
               20,  20,   0,   0,   0,   0,  20,  20,
               20,  30,  10,   0,   0,  10,  30,  20>>

\* the table of a piece and colour: the value of square s is element s + 1
piece_square_table(piece, color) ==
    CASE piece = "Pawn" /\ color = "White" ->
            <<  0,   0,   0,   0,   0,   0,   0,   0,
               50,  50,  50,  50,  50,  50,  50,  50,
               10,  10,  20,  30,  30,  20,  10,  10,
                5,   5,  10,  25,  25,  10,   5,   5,
                0,   0,   0,  20,  20,   0,   0,   0,
                5,  -5, -10,   0,   0, -10,  -5,   5,
                5,  10,  10, -20, -20,  10,  10,   5,
                0,   0,   0,   0,   0,   0,   0,   0>>
      [] piece = "Pawn" /\ color = "Black" ->
            <<  0,   0,   0,   0,   0,   0,   0,   0,
                5,  10,  10, -20, -20,  10,  10,   5,
                5,  -5, -10,   0,   0, -10,  -5,   5,
                0,   0,   0,  20,  20,   0,   0,   0,
                5,   5,  10,  25,  25,  10,   5,   5,
               10,  10,  20,  30,  30,  20,  10,  10,
               50,  50,  50,  50,  50,  50,  50,  50,
                0,   0,   0,   0,   0,   0,   0,   0>>
      [] piece = "Knight" /\ color = "White" ->
            <<-50, -40, -30, -30, -30, -30, -40, -50,
              -40, -20,   0,   0,   0,   0, -20, -40,
              -30,   0,  10,  15,  15,  10,   0, -30,
              -30,   5,  15,  20,  20,  15,   5, -30,
              -30,   0,  15,  20,  20,  15,   0, -30,
              -30,   5,  10,  15,  15,  10,   5, -30,
              -40, -20,   0,   5,   5,   0, -20, -40,
              -50, -40, -30, -30, -30, -30, -40, -50>>
      [] piece = "Knight" /\ color = "Black" ->
            <<-50, -40, -30, -30, -30, -30, -40, -50,
              -40, -20,   0,   5,   5,   0, -20, -40,
              -30,   5,  10,  15,  15,  10,   5, -30,
              -30,   0,  15,  20,  20,  15,   0, -30,
              -30,   5,  15,  20,  20,  15,   5, -30,
              -30,   0,  10,  15,  15,  10,   0, -30,
              -40, -20,   0,   0,   0,   0, -20, -40,
              -50, -40, -30, -30, -30, -30, -40, -50>>
      [] piece = "Bishop" /\ color = "White" ->
            <<-20, -10, -10, -10, -10, -10, -10, -20,
              -10,   0,   0,   0,   0,   0,   0, -10,
              -10,   0,   5,  10,  10,   5,   0, -10,
              -10,   5,   5,  10,  10,   5,   5, -10,
              -10,   0,  10,  10,  10,  10,   0, -10,
              -10,  10,  10,  10,  10,  10,  10, -10,
              -10,   5,   0,   0,   0,   0,   5, -10,
              -20, -10, -10, -10, -10, -10, -10, -20>>
      [] piece = "Bishop" /\ color = "Black" ->
            <<-20, -10, -10, -10, -10, -10, -10, -20,
              -10,   5,   0,   0,   0,   0,   5, -10,
              -10,  10,  10,  10,  10,  10,  10, -10,
              -10,   0,  10,  10,  10,  10,   0, -10,
              -10,   5,   5,  10,  10,   5,   5, -10,
              -10,   0,   5,  10,  10,   5,   0, -10,
              -10,   0,   0,   0,   0,   0,   0, -10,
              -20, -10, -10, -10, -10, -10, -10, -20>>
      [] piece = "Rook" /\ color = "White" ->
            <<  0,   0,   0,   0,   0,   0,   0,   0,
                5,  10,  10,  10,  10,  10,  10,   5,
               -5,   0,   0,   0,   0,   0,   0,  -5,
               -5,   0,   0,   0,   0,   0,   0,  -5,
               -5,   0,   0,   0,   0,   0,   0,  -5,
               -5,   0,   0,   0,   0,   0,   0,  -5,
               -5,   0,   0,   0,   0,   0,   0,  -5,
                0,   0,   0,   5,   5,   0,   0,   0>>
      [] piece = "Rook" /\ color = "Black" ->
            <<  0,   0,   0,   5,   5,   0,   0,   0,
               -5,   0,   0,   0,   0,   0,   0,  -5,
               -5,   0,   0,   0,   0,   0,   0,  -5,
               -5,   0,   0,   0,   0,   0,   0,  -5,
               -5,   0,   0,   0,   0,   0,   0,  -5,
               -5,   0,   0,   0,   0,   0,   0,  -5,
                5,  10,  10,  10,  10,  10,  10,   5,
                0,   0,   0,   0,   0,   0,   0,   0>>
      [] piece = "Queen" /\ color = "White" ->
            <<-20, -10, -10,  -5,  -5, -10, -10, -20,
              -10,   0,   0,   0,   0,   0,   0, -10,
              -10,   0,   5,   5,   5,   5,   0, -10,
               -5,   0,   5,   5,   5,   5,   0,  -5,
                0,   0,   5,   5,   5,   5,   0,  -5,
              -10,   5,   5,   5,   5,   5,   0, -10,
              -10,   0,   5,   0,   0,   0,   0, -10,
              -20, -10, -10,  -5,  -5, -10, -10, -20>>
      [] piece = "Queen" /\ color = "Black" ->
            <<-20, -10, -10,  -5,  -5, -10, -10, -20,
              -10,   0,   5,   0,   0,   0,   0, -10,
              -10,   5,   5,   5,   5,   5,   0, -10,
                0,   0,   5,   5,   5,   5,   0,  -5,
               -5,   0,   5,   5,   5,   5,   0,  -5,
              -10,   0,   5,   5,   5,   5,   0, -10,
              -10,   0,   0,   0,   0,   0,   0, -10,
              -20, -10, -10,  -5,  -5, -10, -10, -20>>
      [] piece = "King" /\ color = "White" ->
            <<-30, -40, -40, -50, -50, -40, -40, -30,
              -30, -40, -40, -50, -50, -40, -40, -30,
              -30, -40, -40, -50, -50, -40, -40, -30,
              -30, -40, -40, -50, -50, -40, -40, -30,
              -20, -30, -30, -40, -40, -30, -30, -20,
              -10, -20, -20, -20, -20, -20, -20, -10,
               20,  20,   0,   0,   0,   0,  20,  20,
               20,  30,  10,   0,   0,  10,  30,  20>>
      [] piece = "King" /\ color = "Black" ->
            << 20,  30,  10,   0,   0,  10,  30,  20,
               20,  20,   0,   0,   0,   0,  20,  20,
              -10, -20, -20, -20, -20, -20, -20, -10,
              -20, -30, -30, -40, -40, -30, -30, -20,
              -30, -40, -40, -50, -50, -40, -40, -30,
              -30, -40, -40, -50, -50, -40, -40, -30,
              -30, -40, -40, -50, -50, -40, -40, -30,
              -30, -40, -40, -50, -50, -40, -40, -30>>

RECURSIVE SumOf(_)
SumOf(values) == IF values = << >> THEN 0 ELSE Head(values) + SumOf(Tail(values))

\* the material of the pieces on the squares, in the order of the loop
MaterialOf(b, squares) ==
    SumOf([i \in 1..Len(squares) |-> material_value(Unwrap(piece_at(b, squares[i])))])

\* their piece-square values, for the colour
PositionOf(b, squares, color) ==
    SumOf([i \in 1..Len(squares) |->
            piece_square_table(Unwrap(piece_at(b, squares[i])), color)[squares[i] + 1]])

\* evaluate unwraps piece_at for every square of the colour bitboards
evaluate_panics(b) == \E square \in all_pieces(b) : piece_at(b, square) = None

\* the sums of evaluate: material after the first loop, material and position
\* after the second
evaluate_sums(b) ==
    Let(BitboardIter(active_pieces(b)), LAMBDA active :
    Let(BitboardIter(inactive_pieces(b)), LAMBDA inactive :
        [active_material |-> MaterialOf(b, active),
         material |-> MaterialOf(b, active) - MaterialOf(b, inactive),
         position |-> PositionOf(b, active, active_color(b))
                        - PositionOf(b, inactive, inactive_color(b))]))

evaluate(b) ==
    Let(evaluate_sums(b), LAMBDA sums : WrapScore(sums.material + sums.position))

\* ------------------------------------------------------------------------
\* search/tt.rs: the transposition table
\* ------------------------------------------------------------------------

\* ScoreData::default(): score 0, depth 0, ScoreLimit::Exact, no best move
ScoreData_default == [score |-> 0, depth |-> 0, flag |-> "Exact", best_move |-> None]

\* TranspositionTable::new. The vector of entries is kept sparsely: a slot
\* outside the domain of table holds the entry new() filled it with, the
\* hash zero and the default data. capacity is Some(the number of slots), or
\* None for a table with more slots than the hashes given to it, where every
\* hash has a slot of its own.
TranspositionTable_new(capacity, zero) ==
    [table |-> << >>,
     zero |-> zero,
     capacity |-> capacity,
     used |-> 0,
     total |-> 0,
     hits |-> 0,
     collisions |-> 0]

hash_index(tt, hash) ==
    IF tt.capacity = None THEN hash ELSE hash % Unwrap(tt.capacity)

\* self.table[index]
EntryAt(tt, index) ==
    IF index \in DOMAIN tt.table THEN tt.table[index]
    ELSE [hash |-> tt.zero, data |-> ScoreData_default]

TranspositionTable_insert(tt, hash, data) ==
    Let(hash_index(tt, hash), LAMBDA index :
        Let(EntryAt(tt, index).hash, LAMBDA residing_hash :
            [tt EXCEPT
                !.used = IF residing_hash = tt.zero THEN @ + 1 ELSE @,
                !.collisions = IF residing_hash # tt.zero /\ residing_hash # hash
                               THEN @ + 1 ELSE @,
                !.table = (index :> [hash |-> hash, data |-> data]) @@ @]))

\* TranspositionTable::get: the table after the call and the value returned
TranspositionTable_get(tt, hash) ==
    Let(EntryAt(tt, hash_index(tt, hash)), LAMBDA entry :
        IF entry.hash = hash
        THEN [tt |-> [tt EXCEPT !.total = @ + 1, !.hits = @ + 1],
              result |-> Some(entry.data)]
        ELSE [tt |-> [tt EXCEPT !.total = @ + 1], result |-> None])

\* ------------------------------------------------------------------------
\* search/ordering.rs and search/alpha_beta.rs: the search
\* ------------------------------------------------------------------------

\* the key order_moves sorts by
Importance(mov, best_move) ==
    IF best_move = Some(mov) THEN 32767
    ELSE Let(CASE mov.flag[1] = "Capture" -> material_value(mov.flag[2])
               [] mov.flag[1] = "CapturePromotion" -> material_value(mov.flag[2])
               [] mov.flag[1] = "EnPassantCapture" -> material_value("Pawn")
               [] OTHER -> 0,
             LAMBDA attacked_value :
                (IF attacked_value # 0
                 THEN (5 * attacked_value) - material_value(mov.piece)
                 ELSE 0)
                + (CASE mov.flag[1] = "Promotion" -> material_value(mov.flag[2])
                     [] mov.flag[1] = "CapturePromotion" -> material_value(mov.flag[3])
                     [] OTHER -> 0))

\* the sequence without its element i
Without(seq, i) == SubSeq(seq, 1, i - 1) \o SubSeq(seq, i + 1, Len(seq))

\* a stable sort by ascending key, reversed: the largest key first and, of
\* equal keys, the later element first
RECURSIVE SortedReversed(_, _)
SortedReversed(moves, keys) ==
    IF moves = << >> THEN << >>
    ELSE Let(CHOOSE i \in 1..Len(moves) :
                \A j \in 1..Len(moves) :
                    keys[j] < keys[i] \/ (keys[j] = keys[i] /\ j <= i),
             LAMBDA i : <<moves[i]>> \o SortedReversed(Without(moves, i), Without(keys, i)))

\* the stable sort by ascending key, not reversed
order_moves_unreversed(moves, best_move) ==
    Let(SortedReversed(moves, [i \in 1..Len(moves) |-> Importance(moves[i], best_move)]),
        LAMBDA sorted : [i \in 1..Len(sorted) |-> sorted[Len(sorted) + 1 - i]])

order_moves(moves, best_move) ==
    SortedReversed(moves, [i \in 1..Len(moves) |-> Importance(moves[i], best_move)])

\* what a call of the search leaves: the score returned, the board and the
\* table after it, and whether it panicked instead of returning
SearchResult(score, b, tt) == [score |-> score, board |-> b, table |-> tt, panic |-> FALSE]

SearchPanic(b, tt) == [score |-> 0, board |-> b, table |-> tt, panic |-> TRUE]

ScoreMax(x, y) == IF x >= y THEN x ELSE y

RECURSIVE quiesce(_, _, _, _)
RECURSIVE QuiesceCaptures(_, _, _, _, _, _)

\* the loop of quiesce over the ordered captures, from capture i on
QuiesceCaptures(tt, b, captures, i, alpha, beta) ==
    IF i > Len(captures) THEN SearchResult(alpha, b, tt)
    ELSE Let(quiesce(tt, make_move(b, captures[i]), WrapScore(-beta), WrapScore(-alpha)),
             LAMBDA r :
                IF r.panic THEN r
                ELSE Let(unmake_move(r.board), LAMBDA unmade :
                     Let(WrapScore(-r.score), LAMBDA score :
                        IF score >= beta THEN SearchResult(beta, unmade, tt)
                        ELSE QuiesceCaptures(tt, unmade, captures, i + 1,
                                             ScoreMax(alpha, score), beta))))

\* Searcher::quiesce; the table is handed through untouched
quiesce(tt, b, alpha, beta) ==
    IF evaluate_panics(b) THEN SearchPanic(b, tt)
    ELSE Let(evaluate(b), LAMBDA current_score :
            IF current_score >= beta THEN SearchResult(beta, b, tt)
            ELSE IF generate_moves_panics(b) THEN SearchPanic(b, tt)
            ELSE QuiesceCaptures(tt, b, order_moves(generate_captures(b), None), 1,
                                 ScoreMax(alpha, current_score), beta))

\* the table entry lets alpha_beta return at once
TableScoreUsable(data, alpha, beta, depth, ply) ==
    IF data.depth < depth THEN FALSE
    ELSE CASE data.flag = "Exact" -> TRUE
           [] data.flag = "Alpha" -> convert_score_get(data.score, ply) <= alpha
           [] data.flag = "Beta" -> convert_score_get(data.score, ply) >= beta

ScoreData(score, depth, flag, best_move) ==
    [score |-> score, depth |-> depth, flag |-> flag, best_move |-> best_move]

RECURSIVE alpha_beta(_, _, _, _, _, _)
RECURSIVE AlphaBetaMoves(_, _, _, _, _, _, _, _, _, _)

\* the loop of alpha_beta over the ordered moves, from move i on
AlphaBetaMoves(tt, b, moves, i, alpha, beta, depth, ply, flag, best_move) ==
    IF i > Len(moves)
    THEN SearchResult(alpha, b,
            TranspositionTable_insert(tt, zobrist(b),
                ScoreData(convert_score_insert(alpha, ply), depth, flag, best_move)))
    ELSE Let(alpha_beta(tt, make_move(b, moves[i]), WrapScore(-beta), WrapScore(-alpha),
                        depth - 1, ply + 1),
             LAMBDA r :
                IF r.panic THEN r
                ELSE Let(unmake_move(r.board), LAMBDA unmade :
                     Let(WrapScore(-r.score), LAMBDA score :
                        IF score >= beta
                        THEN SearchResult(beta, unmade,
                                TranspositionTable_insert(r.table, zobrist(unmade),
                                    ScoreData(convert_score_insert(beta, ply), depth, "Beta",
                                              Some(moves[i]))))
                        ELSE IF score > alpha
                        THEN AlphaBetaMoves(r.table, unmade, moves, i + 1, score, beta,
                                            depth, ply, "Exact", Some(moves[i]))
                        ELSE AlphaBetaMoves(r.table, unmade, moves, i + 1, alpha, beta,
                                            depth, ply, flag, best_move))))

\* Searcher::alpha_beta
alpha_beta(tt, b, alpha, beta, depth, ply) ==
    IF is_drawable(b) THEN SearchResult(DRAW, b, tt)
    ELSE IF depth = 0 THEN quiesce(tt, b, alpha, beta)
    ELSE Let(TranspositionTable_get(tt, zobrist(b)), LAMBDA got :
            IF got.result # None
                /\ TableScoreUsable(Unwrap(got.result), alpha, beta, depth, ply)
            THEN SearchResult(convert_score_get(Unwrap(got.result).score, ply), b, got.tt)
            ELSE IF generate_moves_panics(b) THEN SearchPanic(b, got.tt)
            ELSE Let(generate_moves(b), LAMBDA moves :
                    IF moves = << >>
                    THEN SearchResult(IF in_check(b) THEN WrapScore(-CHECKMATE + ply) ELSE DRAW,
                                      b, got.tt)
                    ELSE AlphaBetaMoves(got.tt, b,
                            order_moves(moves,
                                IF got.result = None THEN None
                                ELSE Unwrap(got.result).best_move),
                            1, alpha, beta, depth, ply, "Alpha", None)))

\* one element of the map of best_move: the root move made, searched and
\* taken back; score is the score of the pair (mov, score), searched the
\* board as alpha_beta returned it
RootMove(tt, b, mov, depth) ==
    Let(alpha_beta(tt, make_move(b, mov), WrapScore(-INFINITY), INFINITY, depth, 1),
        LAMBDA r :
            [score |-> WrapScore(-r.score),
             board |-> IF r.panic THEN r.board ELSE unmake_move(r.board),
             table |-> r.table,
             panic |-> r.panic,
             searched |-> r.board])

\* the first of the pairs instead of the one with the largest score
first_of_pairs(pairs) ==
    IF pairs = << >> THEN None ELSE Some(pairs[1])

\* Iterator::max_by_key over the (move, score) pairs: the last of the pairs
\* with the largest score
max_by_key(pairs) ==
    IF pairs = << >> THEN None
    ELSE Some(pairs[CHOOSE i \in 1..Len(pairs) :
                        \A j \in 1..Len(pairs) :
                            pairs[j][2] < pairs[i][2] \/ (pairs[j][2] = pairs[i][2] /\ j <= i)])

\* ------------------------------------------------------------------------
\* the board of a driver: Board::new on an input string, then generate_moves
\* and make_move on one of its moves, or unmake_move
\* ------------------------------------------------------------------------

MaxPly == 2

VARIABLES
    fen,        \* Some(the string given to Board::new) until the board is first used
    aborted,    \* the process panicked
    board,      \* the Board
    makes,      \* calls of make_move counted by the counting driver
    unmakes,    \* its calls of unmake_move that found a move to take back
    script,     \* the move strings still to be played on board
    board2,     \* a second Board, of the same process
    script2,    \* the move strings still to be played on board2
    table,      \* the TranspositionTable
    inserted,   \* for every slot of the table, the last insert(hash, data) into it
    probe,      \* the last get: its hash and the value it returned
    conversion, \* a score on its way into the table and out of it again
    search,     \* the call of best_move: its locals and where it stands
    subset,     \* the loop of load_single_magic over the subsets of a blockers board
    engine,     \* the Engine in its uci loop: the search control and the timer threads
    ordering,   \* the last call of order_moves: its list, its best move and the list after it
    quiescing   \* a call of quiesce: the frames of its recursion and where it stands

vars == <<fen, aborted, board, makes, unmakes, script, board2, script2,
          table, inserted, probe, conversion, search, subset, engine, ordering,
          quiescing>>

apart == <<subset, engine, ordering, quiescing>>

counters == <<makes, unmakes>>

scripted == <<script, board2, script2>>

searching == <<table, inserted, probe, conversion, search>>

\* no search is running and its table is not in use
SearchIdle ==
    /\ table = TranspositionTable_new(None, {})
    /\ inserted = << >>
    /\ probe = None
    /\ conversion = None
    /\ search = None
    /\ subset = None
    /\ engine = None
    /\ ordering = None
    /\ quiescing = None

\* the elements of a Vec
Range(seq) == {seq[i] : i \in 1..Len(seq)}

Init ==
    /\ \E f \in FenInputs :
        /\ fen = Some(f)
        /\ aborted = Board_new_panics(f)
        /\ board = Board_new(f)
    /\ makes = 0 /\ unmakes = 0
    /\ script = << >> /\ script2 = << >> /\ board2 = NoBoard
    /\ SearchIdle

\* the driver asks for the moves and the generator panics
GenerateMovesPanic ==
    /\ ~aborted
    /\ generate_moves_panics(board)
    /\ aborted' = TRUE
    /\ board' = NoBoard
    /\ fen' = None
    /\ UNCHANGED <<apart, searching, counters, scripted>>

MakeMove ==
    /\ ~aborted
    /\ ~generate_moves_panics(board)
    /\ Len(board.move_history) < MaxPly
    /\ \E m \in Range(generate_moves(board)) : \E overflow_checks \in BOOLEAN :
            IF make_move_overflows(board, m) /\ overflow_checks
            THEN aborted' = TRUE /\ board' = NoBoard
            ELSE board' = make_move(board, m) /\ UNCHANGED aborted
    /\ fen' = None
    /\ UNCHANGED <<apart, searching, counters, scripted>>

UnmakeMove ==
    /\ ~aborted
    /\ board' = unmake_move(board)
    /\ fen' = None
    /\ UNCHANGED <<apart, searching, aborted, counters, scripted>>

Next == GenerateMovesPanic \/ MakeMove \/ UnmakeMove

Spec == Init /\ [][Next]_vars

\* the position can be given to generate_moves
Playable == ~aborted /\ ~generate_moves_panics(board)

\* every square a generated move names is a square of the board
SquaresInRange ==
    Playable =>
        \A m \in Range(generate_moves(board)) :
            /\ m.from \in Squares /\ m.to \in Squares
            /\ m.flag[1] = "KingCastle" => {m.to + 1, m.to - 1} \subseteq Squares
            /\ m.flag[1] = "QueenCastle" => {m.to - 2, m.to + 1} \subseteq Squares

\* ------------------------------------------------------------------------
\* the rules of chess on a placement of pieces: the reference the generator,
\* the legality check of Board::new and make_move are compared with
\* ------------------------------------------------------------------------

\* the square of a row (0 is the eighth rank) and a file (0 is the a-file)
RefSquare(row, file) == 8 * row + file

\* the squares one step of (rows, files) away from a square, if on the board
RefStep(square, rows, files) ==
    IF (RankRow(square) + rows) \in 0..7 /\ (FileOf(square) + files) \in 0..7
    THEN {RefSquare(RankRow(square) + rows, FileOf(square) + files)}
    ELSE {}

\* << >> on an empty square, <<colour, piece>> on an occupied one
Placement(b) ==
    [square \in Squares |->
        IF b.piece_list[square] = None THEN << >>
        ELSE IF square \in b.colors["White"] THEN <<"White", Unwrap(b.piece_list[square])>>
        ELSE IF square \in b.colors["Black"] THEN <<"Black", Unwrap(b.piece_list[square])>>
        ELSE << >>]

RefKnightSteps ==
    {<<-2, -1>>, <<-2, 1>>, <<-1, -2>>, <<-1, 2>>, <<1, -2>>, <<1, 2>>, <<2, -1>>, <<2, 1>>}

RefKingSteps ==
    {<<-1, -1>>, <<-1, 0>>, <<-1, 1>>, <<0, -1>>, <<0, 1>>, <<1, -1>>, <<1, 0>>, <<1, 1>>}

RefBishopSteps == {<<-1, -1>>, <<-1, 1>>, <<1, -1>>, <<1, 1>>}

RefRookSteps == {<<-1, 0>>, <<0, -1>>, <<0, 1>>, <<1, 0>>}

\* white pawns walk towards row 0, black pawns towards row 7
RefForward(color) == IF color = "White" THEN -1 ELSE 1

\* the squares of a ray from a square up to and with the first occupied one
RECURSIVE RefRay(_, _, _)
RefRay(placement, square, step) ==
    LET next == RefStep(square, step[1], step[2])
    IN  IF next = {} THEN {}
        ELSE LET n == CHOOSE x \in next : TRUE
             IN  IF placement[n] # << >> THEN {n}
                 ELSE {n} \cup RefRay(placement, n, step)

\* the squares the piece on a square attacks
RefAttacks(placement, square) ==
    LET color == placement[square][1]
        piece == placement[square][2]
        rays(steps) == UNION {RefRay(placement, square, step) : step \in steps}
        leaps(steps) == UNION {RefStep(square, step[1], step[2]) : step \in steps}
    IN  CASE piece = "Pawn" ->
                RefStep(square, RefForward(color), -1) \cup RefStep(square, RefForward(color), 1)
          [] piece = "Knight" -> leaps(RefKnightSteps)
          [] piece = "King" -> leaps(RefKingSteps)
          [] piece = "Bishop" -> rays(RefBishopSteps)
          [] piece = "Rook" -> rays(RefRookSteps)
          [] piece = "Queen" -> rays(RefBishopSteps \cup RefRookSteps)

\* some piece of the colour attacks the square
RefAttacked(placement, color, target) ==
    \E square \in Squares :
        /\ placement[square] # << >>
        /\ placement[square][1] = color
        /\ target \in RefAttacks(placement, square)

\* the pieces of the colour that attack the square
RefAttackersOf(placement, color, target) ==
    {square \in Squares :
        /\ placement[square] # << >>
        /\ placement[square][1] = color
        /\ target \in RefAttacks(placement, square)}

RefKings(placement, color) == {square \in Squares : placement[square] = <<color, "King">>}

\* the moves of a pawn by the rules, the king's safety apart
RefPawnMoves(b, placement, from) ==
    LET color == placement[from][1]
        forward == RefForward(color)
        last_row == IF color = "White" THEN 0 ELSE 7
        first_row == IF color = "White" THEN 6 ELSE 1
        flagged(to, captured) ==
            IF RankRow(to) = last_row
            THEN {Move(from, to, "Pawn",
                       IF captured = None THEN Promotion(promoted)
                       ELSE CapturePromotion(Unwrap(captured), promoted)) :
                    promoted \in {"Knight", "Bishop", "Rook", "Queen"}}
            ELSE {Move(from, to, "Pawn",
                       IF captured = None THEN Quiet ELSE Capture(Unwrap(captured)))}
        one == {to \in RefStep(from, forward, 0) : placement[to] = << >>}
        two == IF RankRow(from) = first_row /\ one # {}
               THEN {to \in RefStep(from, 2 * forward, 0) : placement[to] = << >>}
               ELSE {}
        takes == {to \in RefAttacks(placement, from) :
                    placement[to] # << >> /\ placement[to][1] # color}
        passing ==
            {to \in RefAttacks(placement, from) :
                /\ b.game_state.en_passant_square = Some(to)
                /\ placement[to] = << >>
                /\ \E victim \in RefStep(to, -forward, 0) :
                        placement[victim] = <<opposite(color), "Pawn">>}
    IN  UNION {flagged(to, None) : to \in one}
        \cup {Move(from, to, "Pawn", PawnDoubleMove(to - 8 * forward)) : to \in two}
        \cup UNION {flagged(to, Some(placement[to][2])) : to \in takes}
        \cup {Move(from, to, "Pawn", EnPassantCapture(to - 8 * forward)) : to \in passing}

\* the moves of the piece on a square by the rules, the king's safety apart
RefPieceMoves(b, placement, from) ==
    IF placement[from][2] = "Pawn" THEN RefPawnMoves(b, placement, from)
    ELSE {Move(from, to, placement[from][2],
               IF placement[to] = << >> THEN Quiet ELSE Capture(placement[to][2])) :
            to \in {t \in RefAttacks(placement, from) :
                        placement[t] = << >> \/ placement[t][1] # placement[from][1]}}

\* castling by the rules: the right is held, king and rook stand on their
\* first squares, the squares between them are empty, and the king neither
\* stands on, crosses nor reaches an attacked square
RefCastleMoves(b, placement) ==
    LET color == b.game_state.current_turn
        home == IF color = "White" THEN 60 ELSE 4
        free(squares) == \A square \in squares : placement[square] = << >>
        safe(squares) ==
            \A square \in squares : ~RefAttacked(placement, opposite(color), square)
        begun(rook) ==
            placement[home] = <<color, "King">> /\ placement[rook] = <<color, "Rook">>
        kingside ==
            /\ CastleRights_get(b.game_state.castle_rights, color, "Kingside")
            /\ begun(home + 3)
            /\ free({home + 1, home + 2})
            /\ safe({home, home + 1, home + 2})
        queenside ==
            /\ CastleRights_get(b.game_state.castle_rights, color, "Queenside")
            /\ begun(home - 4)
            /\ free({home - 1, home - 2, home - 3})
            /\ safe({home, home - 1, home - 2})
    IN  (IF kingside THEN {Move(home, home + 2, "King", KingCastle)} ELSE {})
        \cup (IF queenside THEN {Move(home, home - 2, "King", QueenCastle)} ELSE {})

RefPseudoLegalMoves(b) ==
    LET placement == Placement(b)
        color == b.game_state.current_turn
    IN  UNION {RefPieceMoves(b, placement, from) :
                from \in {square \in Squares :
                            placement[square] # << >> /\ placement[square][1] = color}}
        \cup RefCastleMoves(b, placement)

\* the placement after a move of the colour
RefAfter(placement, color, m) ==
    LET tag == m.flag[1]
        arrived ==
            CASE tag = "Promotion" -> m.flag[2]
              [] tag = "CapturePromotion" -> m.flag[3]
              [] OTHER -> m.piece
        moved == [placement EXCEPT ![m.from] = << >>, ![m.to] = <<color, arrived>>]
    IN  CASE tag = "EnPassantCapture" -> [moved EXCEPT ![m.flag[2]] = << >>]
          [] tag = "KingCastle" ->
                [moved EXCEPT ![m.to + 1] = << >>, ![m.to - 1] = <<color, "Rook">>]
          [] tag = "QueenCastle" ->
                [moved EXCEPT ![m.to - 2] = << >>, ![m.to + 1] = <<color, "Rook">>]
          [] OTHER -> moved

\* the king of the colour stands on no attacked square
RefKingSafe(placement, color) ==
    \A king \in RefKings(placement, color) :
        ~RefAttacked(placement, opposite(color), king)

\* the pseudo-legal moves that do not leave the mover's king attacked
RefLegalMoves(b) ==
    {m \in RefPseudoLegalMoves(b) :
        RefKingSafe(RefAfter(Placement(b), b.game_state.current_turn, m),
                    b.game_state.current_turn)}

\* the counts of one colour are possible: one king, at most eight pawns,
\* and no more pieces of a kind beyond its initial count than pawns are missing
RefCountsPossible(placement, color) ==
    LET count(piece) ==
            Cardinality({square \in Squares : placement[square] = <<color, piece>>})
        surplus(piece) ==
            IF count(piece) > initial_count(piece) THEN count(piece) - initial_count(piece)
            ELSE 0
    IN  /\ count("King") = 1
        /\ count("Pawn") <= 8
        /\ surplus("Knight") + surplus("Bishop") + surplus("Rook") + surplus("Queen")
                <= 8 - count("Pawn")

\* ------------------------------------------------------------------------
\* the properties of the board
\* ------------------------------------------------------------------------

\* C1: on every board of Board::new or reached from one, make_move of any
\* generated move followed by unmake_move gives back the board exactly: the
\* bitboards, the mailbox, the GameState, both history stacks, and with them
\* the hash
C1_MakeUnmakeRestores ==
    Playable =>
        \A m \in Range(generate_moves(board)) :
            LET restored == unmake_move(make_move(board, m))
            IN  restored = board /\ zobrist(restored) = zobrist(board)

\* C2: after make_move of any generated move no piece of the other side,
\* the king included, attacks the king of the side that moved
C2_MoverKingNotAttacked ==
    Playable =>
        \A m \in Range(generate_moves(board)) :
            RefKingSafe(Placement(make_move(board, m)), board.game_state.current_turn)

\* C3: generate_moves returns the legal moves of the reference generator,
\* each of them once, and twenty of them on the initial position
C3_GeneratesExactlyLegalMoves ==
    Playable =>
        LET moves == generate_moves(board)
        IN  /\ Range(moves) = RefLegalMoves(board)
            /\ \A i, j \in 1..Len(moves) : moves[i] = moves[j] => i = j
            /\ board = DefaultBoard => Len(moves) = 20

\* C4: the colour bitboards are disjoint, the piece bitboards are pairwise
\* disjoint, the pieces and the colours cover the same squares, and the
\* mailbox holds piece p on square s exactly when bit s of pieces[p] is set
C4_BitboardsConsistent ==
    ~aborted =>
        /\ board.colors["White"] \cap board.colors["Black"] = {}
        /\ \A p, q \in Pieces : p # q => board.pieces[p] \cap board.pieces[q] = {}
        /\ UNION {board.pieces[p] : p \in Pieces} = UNION {board.colors[c] : c \in Colors}
        /\ \A s \in Squares : \A p \in Pieces :
                board.piece_list[s] = Some(p) <=> s \in board.pieces[p]

\* the string fails the format check of Board::new, its number fields included
FailsFormat(f) ==
    IF ~check_valid_fen(f) THEN TRUE
    ELSE ParseU32Fails(Split(f)[5]) \/ ParseU32Fails(Split(f)[6])

\* the parsed position fails the legality check of Board::new, or the side to
\* move is attacked by three or more pieces
FailsLegality(f) ==
    IF FailsFormat(f) THEN FALSE
    ELSE IF is_legal_position_panics(ParseBoard(Split(f))) THEN TRUE
    ELSE ~is_legal_position(ParseBoard(Split(f)))

\* C9: Board::new returns a board for every string, and the initial position
\* whenever the string fails the format check (an empty or unrepresentable
\* number field included) or the position fails the legality check (three or
\* more attackers of the side to move included)
C9_NewNeverAborts ==
    fen # None =>
        /\ ~aborted
        /\ (FailsFormat(Unwrap(fen)) \/ FailsLegality(Unwrap(fen))) => board = DefaultBoard

\* C10: Board::new keeps the parsed position only if each colour has one
\* king, at most eight pawns and no surplus of pieces beyond the missing
\* pawns, and no piece of the side to move attacks the king of the other
\* side, whether or not the side to move is in check itself
C10_KeptPositionIsSane ==
    (fen # None /\ ~aborted /\ ~FailsFormat(Unwrap(fen))
        /\ board = ParseBoard(Split(Unwrap(fen)))) =>
        /\ \A color \in Colors : RefCountsPossible(Placement(board), color)
        /\ RefKingSafe(Placement(board), opposite(board.game_state.current_turn))

\* C11: for every string that passes the format check of Board::new and whose
\* position passes the legality check, to_fen of the board Board::new returns
\* is that string, character for character
C11_ToFenRoundTrip ==
    IF fen = None \/ aborted THEN TRUE
    ELSE IF FailsFormat(Unwrap(fen)) \/ FailsLegality(Unwrap(fen)) THEN TRUE
    ELSE to_fen(board) = Unwrap(fen)

\* C16: a castle is generated for a wing exactly when the side to move holds
\* the right, the squares between king and rook on its back rank are empty
\* and the e-file square, the square crossed and the destination are not
\* attacked; the king of a generated castle neither leaves, crosses nor
\* reaches an attacked square; an attacked b-file square does not matter
C16_CastlesExactlyWhenAllowed ==
    Playable =>
        LET color == board.game_state.current_turn
            home == IF color = "White" THEN 60 ELSE 4
            placement == Placement(board)
            moves == Range(generate_moves(board))
            free(squares) == \A square \in squares : placement[square] = << >>
            safe(squares) ==
                \A square \in squares : ~RefAttacked(placement, opposite(color), square)
            kingside ==
                /\ CastleRights_get(board.game_state.castle_rights, color, "Kingside")
                /\ free({home + 1, home + 2})
                /\ safe({home, home + 1, home + 2})
            queenside ==
                /\ CastleRights_get(board.game_state.castle_rights, color, "Queenside")
                /\ free({home - 1, home - 2, home - 3})
                /\ safe({home, home - 1, home - 2})
        IN  /\ (\E m \in moves : m.flag = KingCastle) <=> kingside
            /\ (\E m \in moves : m.flag = QueenCastle) <=> queenside
            /\ \A m \in moves :
                m.flag \in {KingCastle, QueenCastle} =>
                    safe({m.from, (m.from + m.to) \div 2, m.to})

\* C17: when the en-passant square is set it lies on the rank right behind a
\* pawn of the side not to move (rank 6 behind a black pawn on rank 5 with
\* White to move, rank 3 behind a white pawn on rank 4 with Black to move),
\* and every generated en-passant capture removes a pawn of the opponent
C17_EnPassantBehindPawn ==
    (~aborted /\ board.game_state.en_passant_square # None) =>
        LET square == Unwrap(board.game_state.en_passant_square)
            color == board.game_state.current_turn
            pawn == IF color = "White" THEN square + 8 ELSE square - 8
        IN  /\ square \in (IF color = "White" THEN 16..23 ELSE 40..47)
            /\ Placement(board)[pawn] = <<opposite(color), "Pawn">>
            /\ Playable =>
                \A m \in Range(generate_moves(board)) :
                    m.flag[1] = "EnPassantCapture" =>
                        Placement(board)[m.flag[2]] = <<opposite(color), "Pawn">>

\* the board with the colours of the pieces swapped, the ranks mirrored and
\* the other side to move
MirrorSquare(square) == (7 - (square \div 8)) * 8 + (square % 8)

MirrorBoard(b) ==
    [b EXCEPT
        !.pieces = [piece \in Pieces |-> {MirrorSquare(square) : square \in b.pieces[piece]}],
        !.colors = [color \in Colors |->
                        {MirrorSquare(square) : square \in b.colors[opposite(color)]}],
        !.piece_list = [square \in Squares |-> b.piece_list[MirrorSquare(square)]],
        !.game_state.current_turn = opposite(@)]

\* the board with only the side to move changed
FlipTurn(b) == [b EXCEPT !.game_state.current_turn = opposite(@)]

\* C19: INFINITY > CHECKMATE > CHECKMATE_THRESHOLD; every mate score
\* CHECKMATE - ply with ply up to 255 lies above the threshold; the static
\* evaluation of every admitted or reached position is smaller than the
\* threshold in size; and neither the sums of evaluate nor a search score
\* with its sign changed or a ply added or taken away leaves the 16 bits
C19_ScoresConsistent ==
    /\ INFINITY > CHECKMATE
    /\ CHECKMATE > CHECKMATE_THRESHOLD
    /\ \A ply \in 0..MAX_DEPTH : CHECKMATE - ply > CHECKMATE_THRESHOLD
    /\ \A ply \in 0..MAX_DEPTH :
            ~Overflows(INFINITY + ply) /\ ~Overflows(-INFINITY - ply)
    /\ (~aborted /\ ~evaluate_panics(board)) =>
        LET sums == evaluate_sums(board)
        IN  /\ ~Overflows(sums.active_material)
            /\ ~Overflows(sums.material)
            /\ ~Overflows(sums.position)
            /\ ~Overflows(sums.material + sums.position)
            /\ evaluate(board) < CHECKMATE_THRESHOLD
            /\ evaluate(board) > -CHECKMATE_THRESHOLD

\* the side to move faces nine queens, two rooks, two bishops and two knights
C19_Witness ==
    /\ ~aborted
    /\ fen = Some(FEN_LARGEST_ARMY)
    /\ evaluate(board) < -10000

\* C20: the Black table of every piece is the White table mirrored by rank;
\* a board and its mirror image with colours and side to move swapped have
\* the same evaluation; changing only the side to move negates it
C20_EvaluateSymmetric ==
    /\ \A piece \in Pieces :
            Let(piece_square_table(piece, "White"), LAMBDA white :
                piece_square_table(piece, "Black")
                    = [i \in 1..BOARD_SIZE |-> white[MirrorSquare(i - 1) + 1]])
    /\ (~aborted /\ ~evaluate_panics(board)) =>
            Let(evaluate(board), LAMBDA score :
                /\ evaluate(MirrorBoard(board)) = score
                /\ evaluate(FlipTurn(board)) = -score)

\* a board with a white pawn on the seventh rank against a knight, a move made
C20_Witness ==
    /\ ~aborted
    /\ Len(board.move_history) = 1
    /\ board.pieces["Pawn"] # {}
    /\ evaluate(board) # 0
    /\ evaluate(board) # evaluate(FlipTurn(board))

\* the squares strictly between two squares of one rank, file or diagonal
RefBetween(from, to) ==
    LET rows == RankRow(to) - RankRow(from)
        files == FileOf(to) - FileOf(from)
        sign(n) == IF n > 0 THEN 1 ELSE IF n < 0 THEN -1 ELSE 0
        size(n) == IF n < 0 THEN -n ELSE n
        steps == IF size(rows) > size(files) THEN size(rows) ELSE size(files)
    IN  IF rows = 0 \/ files = 0 \/ size(rows) = size(files)
        THEN {RefSquare(RankRow(from) + k * sign(rows), FileOf(from) + k * sign(files)) :
                k \in 1..(steps - 1)}
        ELSE {}

\* the move answers the check given by the piece on the checker's square
RefAnswersCheck(placement, color, king, checker, m) ==
    IF m.piece = "King"
    THEN /\ m.flag[1] \in {"Quiet", "Capture"}
         /\ RefKingSafe(RefAfter(placement, color, m), color)
    ELSE \/ m.flag[1] \in {"Capture", "CapturePromotion"} /\ m.to = checker
         \/ m.flag[1] = "EnPassantCapture" /\ m.flag[2] = checker
         \/ /\ is_sliding(placement[checker][2])
            /\ m.to \in RefBetween(checker, king)
            /\ m.flag[1] \in {"Quiet", "Promotion", "PawnDoubleMove", "EnPassantCapture"}

\* C22: with one piece giving check every generated move is a king move to
\* an unattacked square, a capture of the checker or, against a bishop, rook
\* or queen, a move onto a square between checker and king; with two pieces
\* giving check every generated move is a king move; castling is never among
\* them.
C22_CheckEvasion ==
    Playable =>
        LET placement == Placement(board)
            color == board.game_state.current_turn
            king == CHOOSE square \in RefKings(placement, color) : TRUE
            checkers == RefAttackersOf(placement, opposite(color), king)
        IN  /\ Cardinality(checkers) = 1 =>
                \A m \in Range(generate_moves(board)) :
                    RefAnswersCheck(placement, color, king,
                                    CHOOSE checker \in checkers : TRUE, m)
            /\ Cardinality(checkers) >= 2 =>
                \A m \in Range(generate_moves(board)) :
                    /\ m.piece = "King"
                    /\ m.flag[1] \in {"Quiet", "Capture"}
                    /\ RefKingSafe(RefAfter(placement, color, m), color)

\* C23: a pawn's en-passant capture is generated exactly when the pawn
\* attacks the en-passant square and, with the pawn moved there and the pawn
\* behind the square removed, no opposing piece attacks the mover's king.
C23_EnPassantExactlyWhenSafe ==
    Playable =>
        LET placement == Placement(board)
            color == board.game_state.current_turn
            moves == generate_moves(board)
        IN  \A from \in {square \in Squares : placement[square] = <<color, "Pawn">>} :
                \A to \in Squares :
                    (\E i \in 1..Len(moves) :
                        moves[i] = Move(from, to, "Pawn",
                                        EnPassantCapture(to - 8 * RefForward(color))))
                    <=> /\ board.game_state.en_passant_square = Some(to)
                        /\ to \in RefAttacks(placement, from)
                        /\ RefKingSafe(
                              RefAfter(placement, color,
                                       Move(from, to, "Pawn",
                                            EnPassantCapture(to - 8 * RefForward(color)))),
                              color)

\* the GameState a move of the move history led to
StateAfter(b, i) ==
    IF i = Len(b.move_history) THEN b.game_state ELSE b.move_history[i + 1][2]

\* the move by the colour clears the right of a colour on a side
ClearsRight(m, moving_color, color, side) ==
    IF color = moving_color
    THEN m.piece = "King" \/ m.from = initial_rook_square(color, side)
    ELSE /\ m.flag[1] \in {"Capture", "CapturePromotion"}
         /\ m.to = initial_rook_square(color, side)

\* C24: after every make_move a right is held exactly if it was held before
\* and the move neither moved the king of its colour, nor left the initial
\* rook square of its colour and side, nor captured on that square; no right
\* that was not held is held afterwards.
C24_RightsOnlyDecrease ==
    ~aborted =>
        \A i \in 1..Len(board.move_history) : \A color \in Colors :
            \A side \in {"Kingside", "Queenside"} :
                CastleRights_get(StateAfter(board, i).castle_rights, color, side)
                    <=> /\ CastleRights_get(board.move_history[i][2].castle_rights, color, side)
                        /\ ~ClearsRight(board.move_history[i][1],
                                        board.move_history[i][2].current_turn, color, side)

\* the rook took the rook on a8: White gave up its queenside right by leaving
\* a1 and Black lost its own by the capture
C24_Witness ==
    /\ ~aborted
    /\ Len(board.move_history) = 1
    /\ board.move_history[1][1] = Move(56, 0, "Rook", Capture("Rook"))
    /\ board.move_history[1][2].castle_rights.black_queenside
    /\ ~board.game_state.castle_rights.black_queenside
    /\ ~board.game_state.castle_rights.white_queenside

\* C25: after every make_move the side to move is the other colour; the
\* en-passant square is the square a pawn's double move skipped and None
\* after every other move; the halfmove clock is 0 after a pawn move or a
\* capture and one more than before otherwise; the fullmove counter is one
\* more than before after Black's move and as before after White's.
C25_GameStateAfterMove ==
    ~aborted =>
        \A i \in 1..Len(board.move_history) :
            LET m == board.move_history[i][1]
                before == board.move_history[i][2]
                after == StateAfter(board, i)
                OneMore(n, previous) ==
                    ~U32IncrementOverflows(previous) /\ n = U32Increment(previous)
            IN  /\ after.current_turn = opposite(before.current_turn)
                /\ after.en_passant_square =
                        IF m.flag[1] = "PawnDoubleMove" THEN Some(m.flag[2]) ELSE None
                /\ m.flag[1] = "PawnDoubleMove" =>
                        /\ 2 * m.flag[2] = m.from + m.to
                        /\ m.piece = "Pawn"
                /\ IF m.piece = "Pawn"
                        \/ m.flag[1] \in {"Capture", "CapturePromotion", "EnPassantCapture"}
                   THEN after.halfmove = 0
                   ELSE OneMore(after.halfmove, before.halfmove)
                /\ IF before.current_turn = "Black"
                   THEN OneMore(after.fullmove, before.fullmove)
                   ELSE after.fullmove = before.fullmove

\* the pieces on the board
PieceCount(b) == Cardinality({square \in Squares : Placement(b)[square] # << >>})

\* C28: a colour that holds a castle right has its king on its e-file home
\* square and a rook on the corner of that wing; every generated castle
\* moves a rook of the mover that stands on that corner, and no generated
\* move leaves more pieces on the board than there were.
C28_RightsMeanHomeSquares ==
    ~aborted =>
        /\ \A color \in Colors : \A side \in {"Kingside", "Queenside"} :
            CastleRights_get(board.game_state.castle_rights, color, side) =>
                /\ Placement(board)[IF color = "White" THEN 60 ELSE 4] = <<color, "King">>
                /\ Placement(board)[initial_rook_square(color, side)] = <<color, "Rook">>
        /\ ~generate_moves_panics(board) =>
            \A m \in Range(generate_moves(board)) :
                /\ m.flag[1] = "KingCastle" =>
                        Placement(board)[initial_rook_square(board.game_state.current_turn,
                                                             "Kingside")]
                            = <<board.game_state.current_turn, "Rook">>
                /\ m.flag[1] = "QueenCastle" =>
                        Placement(board)[initial_rook_square(board.game_state.current_turn,
                                                             "Queenside")]
                            = <<board.game_state.current_turn, "Rook">>
                /\ PieceCount(make_move(board, m)) <= PieceCount(board)

\* ------------------------------------------------------------------------
\* a driver that counts its calls of make_move and unmake_move
\* ------------------------------------------------------------------------

MaxCalls == 3

\* the strings the counting driver starts from
CallInputs == {FEN_KINGS, FEN_EN_PASSANT, FEN_PROMOTION}

InitCalls ==
    /\ \E f \in CallInputs :
        /\ fen = Some(f)
        /\ aborted = Board_new_panics(f)
        /\ board = Board_new(f)
    /\ makes = 0 /\ unmakes = 0
    /\ script = << >> /\ script2 = << >> /\ board2 = NoBoard
    /\ SearchIdle

CountedMake ==
    /\ ~aborted
    /\ ~generate_moves_panics(board)
    /\ makes + unmakes < MaxCalls
    /\ \E m \in Range(generate_moves(board)) : board' = make_move(board, m)
    /\ makes' = makes + 1
    /\ fen' = None
    /\ UNCHANGED <<apart, searching, aborted, unmakes, scripted>>

\* the call is counted when the pop of the move history gave a move
CountedUnmake ==
    /\ ~aborted
    /\ makes + unmakes < MaxCalls
    /\ board' = unmake_move(board)
    /\ unmakes' = IF board.move_history # << >> THEN unmakes + 1 ELSE unmakes
    /\ fen' = None
    /\ UNCHANGED <<apart, searching, aborted, makes, scripted>>

NextCalls == CountedMake \/ CountedUnmake

SpecCalls == InitCalls /\ [][NextCalls]_vars

\* C8: the two history stacks are equally long, as long as the calls of
\* make_move exceed the calls of unmake_move that took a move back; and
\* unmake_move on an empty history leaves the board as it is
C8_HistoriesInStep ==
    ~aborted =>
        /\ Len(board.move_history) = Len(board.position_history)
        /\ Len(board.move_history) = makes - unmakes
        /\ board.move_history = << >> => unmake_move(board) = board

\* two moves were made and one was taken back
C8_Witness ==
    /\ ~aborted
    /\ makes = 2 /\ unmakes = 1
    /\ Len(board.move_history) = 1
    /\ Len(board.position_history) = 1

\* ------------------------------------------------------------------------
\* engine.rs, "position startpos moves ...": two boards, each set to the
\* initial position and played through its own list of move strings
\* ------------------------------------------------------------------------

\* the letter of a promotion in a move string
symbol(piece) ==
    CASE piece = "Knight" -> "n"
      [] piece = "Bishop" -> "b"
      [] piece = "Rook" -> "r"
      [] piece = "Queen" -> "q"
      [] piece = "Pawn" -> "p"
      [] piece = "King" -> "k"

\* impl Display for Move
Move_to_string(m) ==
    ALGEBRAIC_NOTATION[m.from + 1] \o ALGEBRAIC_NOTATION[m.to + 1]
        \o (CASE m.flag[1] = "Promotion" -> <<symbol(m.flag[2])>>
              [] m.flag[1] = "CapturePromotion" -> <<symbol(m.flag[3])>>
              [] OTHER -> << >>)

\* the strings of the moves a board has made
Played(b) == [i \in 1..Len(b.move_history) |-> Move_to_string(b.move_history[i][1])]

MoveStrings ==
    [e2e4 |-> <<"e", "2", "e", "4">>, e7e5 |-> <<"e", "7", "e", "5">>,
     g1f3 |-> <<"g", "1", "f", "3">>, b8c6 |-> <<"b", "8", "c", "6">>,
     f3g1 |-> <<"f", "3", "g", "1">>, g8f6 |-> <<"g", "8", "f", "6">>,
     f6g8 |-> <<"f", "6", "g", "8">>, e2e5 |-> <<"e", "2", "e", "5">>]

\* "e2e4 e7e5 g1f3 b8c6"
PAWNS_THEN_KNIGHTS ==
    <<MoveStrings.e2e4, MoveStrings.e7e5, MoveStrings.g1f3, MoveStrings.b8c6>>

\* "g1f3 b8c6 e2e4 e7e5"
KNIGHTS_THEN_PAWNS ==
    <<MoveStrings.g1f3, MoveStrings.b8c6, MoveStrings.e2e4, MoveStrings.e7e5>>

\* "g1f3 e7e5 e2e4 b8c6"
KNIGHT_PAWN_PAWN_KNIGHT ==
    <<MoveStrings.g1f3, MoveStrings.e7e5, MoveStrings.e2e4, MoveStrings.b8c6>>

\* "e2e5 e2e4": the first string names no legal move
WITH_ILLEGAL_STRING == <<MoveStrings.e2e5, MoveStrings.e2e4>>

\* "g1f3 g8f6 f3g1 f6g8": both king's knights go out and come back
KNIGHTS_OUT_AND_BACK ==
    <<MoveStrings.g1f3, MoveStrings.g8f6, MoveStrings.f3g1, MoveStrings.f6g8>>

RECURSIVE Repeated(_, _)
Repeated(strings, times) ==
    IF times = 0 THEN << >> ELSE strings \o Repeated(strings, times - 1)

\* how often the knights go out and come back
MaxRepeats == 3

Scripts ==
    {PAWNS_THEN_KNIGHTS, KNIGHTS_THEN_PAWNS, KNIGHT_PAWN_PAWN_KNIGHT, WITH_ILLEGAL_STRING,
     Repeated(KNIGHTS_OUT_AND_BACK, MaxRepeats)}

InitScript ==
    /\ fen = None
    /\ aborted = FALSE
    /\ makes = 0 /\ unmakes = 0
    /\ board = DefaultBoard
    /\ board2 = DefaultBoard
    /\ SearchIdle
    /\ script \in Scripts
    /\ script2 \in Scripts

\* the board after the next move string: the generated move that prints as
\* the string is made; a string that no generated move prints leaves the board
PlayString(b, move_string) ==
    Let(SelectSeq(generate_moves(b), LAMBDA mov : Move_to_string(mov) = move_string),
        LAMBDA found : IF found = << >> THEN b ELSE make_move(b, Head(found)))

PlayMove ==
    /\ script # << >>
    /\ board' = PlayString(board, Head(script))
    /\ script' = Tail(script)
    /\ UNCHANGED <<apart, searching, fen, aborted, counters, board2, script2>>

PlayMove2 ==
    /\ script2 # << >>
    /\ board2' = PlayString(board2, Head(script2))
    /\ script2' = Tail(script2)
    /\ UNCHANGED <<apart, searching, fen, aborted, counters, board, script>>

NextScript == PlayMove \/ PlayMove2

SpecScript == InitScript /\ [][NextScript]_vars

\* how often the position of the board has occurred in its game, the
\* position on the board counted: the history holds the hash of every
\* position a move was made from
Occurrences(b) ==
    Cardinality({i \in 1..Len(b.position_history) : b.position_history[i] = zobrist(b)}) + 1

\* C5: is_drawable is true exactly when the halfmove clock is at least 50 or
\* the position on the board has occurred three or more times, the position
\* on the board counted
C5_DrawableAtThirdOccurrence ==
    is_drawable(board) <=>
        (U32AtLeast(board.game_state.halfmove, 50) \/ Occurrences(board) >= 3)

\* what the hash may depend on: the placement with its colours, the castle
\* rights, the side to move and the en-passant square
Components(b) ==
    <<b.piece_list, b.colors, b.game_state.castle_rights, b.game_state.current_turn,
      b.game_state.en_passant_square>>

\* C6: two boards that agree on the placement with its colours, the castle
\* rights, the side to move and the en-passant square have equal hashes,
\* whatever their counters, their histories and the order of their moves
C6_HashOfComponentsOnly ==
    Components(board) = Components(board2) => zobrist(board) = zobrist(board2)

\* two boards agree on the four components after as many moves, made in
\* another order, and differ in the halfmove clock and in both histories
C6_Witness ==
    /\ Components(board) = Components(board2)
    /\ Len(board.move_history) = 4
    /\ Len(board2.move_history) = 4
    /\ board.game_state.halfmove # board2.game_state.halfmove
    /\ board.move_history # board2.move_history
    /\ board.position_history # board2.position_history

\* C7: the boards after "e2e4 e7e5 g1f3 b8c6" and after "g1f3 b8c6 e2e4 e7e5",
\* every string played as the generated move it names, have equal hashes
C7_TranspositionSameHash ==
    (Played(board) = PAWNS_THEN_KNIGHTS /\ Played(board2) = KNIGHTS_THEN_PAWNS) =>
        zobrist(board) = zobrist(board2)

\* ------------------------------------------------------------------------
\* a driver of the transposition table: inserts and gets on a fresh table
\* ------------------------------------------------------------------------

\* the slots of the table
TableCapacity == 2

\* the hashes given to the table are 0..MaxHash
MaxHash == 3

\* the inserts that fill or collide, and the gets, are counted up to this
MaxTableCalls == 3

TableData ==
    {ScoreData_default,
     [score |-> 100, depth |-> 1, flag |-> "Exact", best_move |-> None],
     [score |-> -50, depth |-> 2, flag |-> "Beta", best_move |-> None]}

InitTable ==
    /\ table = TranspositionTable_new(Some(TableCapacity), 0)
    /\ inserted = [index \in 0..(TableCapacity - 1) |-> None]
    /\ probe = None
    /\ conversion = None
    /\ search = None
    /\ subset = None
    /\ engine = None
    /\ ordering = None
    /\ quiescing = None
    /\ fen = None /\ aborted = FALSE /\ board = NoBoard
    /\ makes = 0 /\ unmakes = 0
    /\ script = << >> /\ script2 = << >> /\ board2 = NoBoard

TableInsert ==
    /\ table.used + table.collisions < MaxTableCalls
    /\ \E hash \in 0..MaxHash : \E data \in TableData :
        /\ table' = TranspositionTable_insert(table, hash, data)
        /\ inserted' = [inserted EXCEPT ![hash_index(table, hash)] = Some(<<hash, data>>)]
    /\ probe' = None
    /\ UNCHANGED <<apart, fen, aborted, board, counters, scripted, conversion, search>>

TableGet ==
    /\ table.total < MaxTableCalls
    /\ \E hash \in 0..MaxHash :
        /\ table' = TranspositionTable_get(table, hash).tt
        /\ probe' = Some(<<hash, TranspositionTable_get(table, hash).result>>)
    /\ UNCHANGED <<apart, fen, aborted, board, counters, scripted, inserted, conversion, search>>

NextTable == TableInsert \/ TableGet

SpecTable == InitTable /\ [][NextTable]_vars

\* C12: get(h) returns Some(d) exactly when the last insert into the slot of
\* h was insert(h, d), and None when the slot was never written or was last
\* written with another hash; for every hash, zero included
C12_GetReturnsLastInsert ==
    probe # None =>
        LET hash == probe[1][1]
            last == inserted[hash_index(table, hash)]
        IN  probe[1][2] = IF last # None /\ last[1][1] = hash THEN Some(last[1][2])
                          ELSE None

\* ------------------------------------------------------------------------
\* a score written to the table at one ply and read back at another
\* ------------------------------------------------------------------------

\* scores up to INFINITY in size, on both sides of the mate threshold
ScoreInputs ==
    {-INFINITY, -CHECKMATE, -CHECKMATE + 1, -CHECKMATE + MAX_DEPTH,
     -CHECKMATE_THRESHOLD - 1, -CHECKMATE_THRESHOLD, -CHECKMATE_THRESHOLD + 1,
     -1, DRAW, 1,
     CHECKMATE_THRESHOLD - 1, CHECKMATE_THRESHOLD, CHECKMATE_THRESHOLD + 1,
     CHECKMATE - MAX_DEPTH, CHECKMATE - 1, CHECKMATE, INFINITY}

InitConvert ==
    /\ \E score \in ScoreInputs : \E ply \in 0..MAX_DEPTH :
        conversion = [score |-> score, ply |-> ply, stored |-> None,
                      read_ply |-> None, returned |-> None, overflow |-> FALSE]
    /\ table = TranspositionTable_new(None, {})
    /\ inserted = << >>
    /\ probe = None
    /\ search = None
    /\ subset = None
    /\ engine = None
    /\ ordering = None
    /\ quiescing = None
    /\ fen = None /\ aborted = FALSE /\ board = NoBoard
    /\ makes = 0 /\ unmakes = 0
    /\ script = << >> /\ script2 = << >> /\ board2 = NoBoard

ConvertInsert ==
    /\ conversion.stored = None
    /\ conversion' =
        [conversion EXCEPT
            !.stored = Some(convert_score_insert(conversion.score, conversion.ply)),
            !.overflow = convert_score_insert_overflows(conversion.score, conversion.ply)]
    /\ UNCHANGED <<apart, fen, aborted, board, counters, scripted, table, inserted, probe, search>>

ConvertGet ==
    /\ conversion.stored # None
    /\ conversion.returned = None
    /\ \E ply \in {0, 1, conversion.ply, MAX_DEPTH} :
        conversion' =
            [conversion EXCEPT
                !.read_ply = Some(ply),
                !.returned = Some(convert_score_get(Unwrap(conversion.stored), ply)),
                !.overflow = @ \/ convert_score_get_overflows(Unwrap(conversion.stored), ply)]
    /\ UNCHANGED <<apart, fen, aborted, board, counters, scripted, table, inserted, probe, search>>

NextConvert == ConvertInsert \/ ConvertGet

SpecConvert == InitConvert /\ [][NextConvert]_vars

\* C15: a score of size at most INFINITY written at a ply up to 255 and read
\* at the same ply comes back unchanged and nothing overflows; a score within
\* the mate threshold is stored and returned as it is; a mate score written
\* at ply p1 and read at ply p2 comes back as s + p1 - p2 when positive and
\* as s - p1 + p2 when negative
C15_ConversionReversible ==
    (conversion # None /\ conversion.returned # None) =>
        LET s == conversion.score
            p1 == conversion.ply
            p2 == Unwrap(conversion.read_ply)
            returned == Unwrap(conversion.returned)
        IN  /\ ~conversion.overflow
            /\ p2 = p1 => returned = s
            /\ (s <= CHECKMATE_THRESHOLD /\ s >= -CHECKMATE_THRESHOLD) =>
                    Unwrap(conversion.stored) = s /\ returned = s
            /\ s > CHECKMATE_THRESHOLD => returned = s + p1 - p2
            /\ s < -CHECKMATE_THRESHOLD => returned = s - p1 + p2

\* a mate score written at ply 3 has been read back at ply 1
C15_Witness ==
    /\ conversion # None
    /\ conversion.score = CHECKMATE - 1
    /\ conversion.ply = 3
    /\ conversion.read_ply = Some(1)
    /\ conversion.returned = Some(CHECKMATE + 1)

\* ------------------------------------------------------------------------
\* a call of Searcher::best_move on a fresh Searcher, step by step: the
\* check of the clock before an iteration, every root move of the map, and
\* the max_by_key that ends the iteration
\* ------------------------------------------------------------------------

\* the iterations the clock lets start are those of depth 1..MaxSearchDepth
MaxSearchDepth == 2

\* "4k3/8/4K3/4Q3/8/8/8/8 w - - 0 1": White mates in one
FEN_MATE_IN_ONE ==
    <<"4", "k", "3", "/", "8", "/", "4", "K", "3", "/", "4", "Q", "3", "/", "8", "/",
      "8", "/", "8", "/", "8", " ", "w", " ", "-", " ", "-", " ", "0", " ", "1">>

\* "4k3/8/4K3/4Q3/8/8/8/8 w - - 49 1": the same with 49 half-moves on the clock
FEN_MATE_AT_FIFTY ==
    <<"4", "k", "3", "/", "8", "/", "4", "K", "3", "/", "4", "Q", "3", "/", "8", "/",
      "8", "/", "8", "/", "8", " ", "w", " ", "-", " ", "-", " ", "4", "9", " ", "1">>

SearchInputs ==
    {FEN_MATE_IN_ONE, FEN_MATE_AT_FIFTY, FEN_KINGS, FEN_EN_PASSANT, FEN_EP_NO_PAWN,
     FEN_LARGEST_ARMY}

InitSearch ==
    /\ \E f \in SearchInputs :
        /\ fen = Some(f)
        /\ board = Board_new(f)
        /\ search = [pc |-> "clock", depth |-> 1, elapsed |-> FALSE,
                     moves |-> << >>, pairs |-> << >>, best |-> None,
                     completed |-> None, called_on |-> Board_new(f),
                     intact |-> TRUE]
    /\ subset = None
    /\ engine = None
    /\ ordering = None
    /\ quiescing = None
    /\ aborted = FALSE
    /\ table = TranspositionTable_new(None, {})
    /\ inserted = << >>
    /\ probe = None
    /\ conversion = None
    /\ makes = 0 /\ unmakes = 0
    /\ script = << >> /\ script2 = << >> /\ board2 = NoBoard

\* the search time runs out
TimeRunsOut ==
    /\ ~aborted
    /\ search.pc # "returned"
    /\ ~search.elapsed
    /\ search' = [search EXCEPT !.elapsed = TRUE]
    /\ UNCHANGED <<apart, fen, aborted, board, counters, scripted, table, inserted, probe, conversion>>

\* the head of the loop: past the last depth or out of time, best is
\* returned; otherwise the moves of the iteration are generated
StartIteration ==
    /\ ~aborted
    /\ search.pc = "clock"
    /\ IF search.elapsed THEN TRUE ELSE search.depth <= MaxSearchDepth
    /\ IF search.depth >= MAX_DEPTH \/ search.elapsed
       THEN /\ search' = [search EXCEPT !.pc = "returned"]
            /\ UNCHANGED <<aborted, board>>
       ELSE IF generate_moves_panics(board)
       THEN /\ aborted' = TRUE
            /\ board' = NoBoard
            /\ UNCHANGED search
       ELSE /\ search' = [search EXCEPT !.pc = "map", !.moves = generate_moves(board),
                                        !.pairs = << >>]
            /\ UNCHANGED <<aborted, board>>
    /\ UNCHANGED <<apart, fen, counters, scripted, table, inserted, probe, conversion>>

\* the next root move is made, searched and taken back
SearchRootMove ==
    /\ ~aborted
    /\ search.pc = "map"
    /\ Len(search.pairs) < Len(search.moves)
    /\ LET mov == search.moves[Len(search.pairs) + 1]
           r == RootMove(table, board, mov, search.depth)
       IN  IF r.panic
           THEN /\ aborted' = TRUE
                /\ board' = NoBoard
                /\ UNCHANGED <<table, search>>
           ELSE /\ board' = r.board
                /\ table' = r.table
                /\ search' = [search EXCEPT
                                !.pairs = Append(@, <<mov, r.score>>),
                                !.intact = @ /\ r.searched = make_move(board, mov)]
                /\ UNCHANGED aborted
    /\ UNCHANGED <<apart, fen, counters, scripted, inserted, probe, conversion>>

\* the map is used up: max_by_key gives best, and a mate score ends the loop
FinishIteration ==
    /\ ~aborted
    /\ search.pc = "map"
    /\ Len(search.pairs) = Len(search.moves)
    /\ LET best == max_by_key(search.pairs)
       IN  search' =
            [search EXCEPT
                !.best = best,
                !.completed = Some(search.pairs),
                !.pc = IF best # None /\ (best[1][2] > CHECKMATE_THRESHOLD
                                          \/ best[1][2] < -CHECKMATE_THRESHOLD)
                       THEN "returned" ELSE "clock",
                !.depth = IF best # None /\ (best[1][2] > CHECKMATE_THRESHOLD
                                             \/ best[1][2] < -CHECKMATE_THRESHOLD)
                          THEN @ ELSE @ + 1]
    /\ UNCHANGED <<apart, fen, aborted, board, counters, scripted, table, inserted, probe, conversion>>

NextSearch == TimeRunsOut \/ StartIteration \/ SearchRootMove \/ FinishIteration

SpecSearch == InitSearch /\ [][NextSearch]_vars

\* the move takes the board to a position whose side to move is in check and
\* has no move
DeliversCheckmate(b, mov) ==
    Let(make_move(b, mov), LAMBDA made :
        IF generate_moves_panics(made) THEN FALSE
        ELSE generate_moves(made) = << >> /\ in_check(made))

HasMatingMove(b) ==
    \E i \in 1..Len(generate_moves(b)) : DeliversCheckmate(b, generate_moves(b)[i])

\* C13: whenever alpha_beta has returned to a root move, and whenever the
\* map of best_move stands between two root moves or best_move has returned,
\* the board (bitboards, mailbox, game state and both histories) equals the
\* board best_move was called on.
C13_SearchRestoresBoard ==
    ~aborted => (board = search.called_on /\ search.intact)

\* C14: when the position best_move is called on has a move that delivers
\* checkmate and at least the iteration of depth 1 has run, best_move returns
\* a move that delivers checkmate with the score CHECKMATE - 1.
C14_MateInOneFound ==
    (/\ ~aborted
     /\ search.pc = "returned"
     /\ search.completed # None
     /\ HasMatingMove(search.called_on))
        => /\ search.best # None
           /\ Unwrap(search.best)[2] = CHECKMATE - 1
           /\ DeliversCheckmate(search.called_on, Unwrap(search.best)[1])

\* what best_move returns is a pair of the largest score of the last
\* completed iteration, and None only if there is none or it has no pair
ReturnsLastCompleted ==
    IF search.completed = None THEN search.best = None
    ELSE IF Unwrap(search.completed) = << >> THEN search.best = None
    ELSE /\ search.best # None
         /\ \E i \in 1..Len(Unwrap(search.completed)) :
                Unwrap(search.completed)[i] = Unwrap(search.best)
         /\ \A i \in 1..Len(Unwrap(search.completed)) :
                Unwrap(search.completed)[i][2] <= Unwrap(search.best)[2]

BorrowInto(a, b, square) ==
    Let({t \in (a \ b) \cup (b \ a) : t > square}, LAMBDA differing :
        IF differing = {} THEN FALSE
        ELSE (CHOOSE t \in differing : \A u \in differing : t <= u) \in b)

\* self.0 - rhs.0 is below zero: a panic where overflow checks are compiled in
sub_overflows(a, b) == BorrowInto(a, b, -1)

\* impl Sub for Bitboard, where the difference wraps
sub(a, b) ==
    {square \in Squares : (square \in a) # ((square \in b) # BorrowInto(a, b, square))}

next_subset(self, set) == sub(self, set) \cap set

\* the squares the blockers boards of the driver are made of: the most and
\* the least significant bit and squares between them
SubsetSquares == {0, 9, 27, 36, 63}

InitSubset ==
    /\ \E blockers \in SUBSET SubsetSquares : \E overflow_checks \in BOOLEAN :
        subset = [blockers |-> blockers, blocker_subset |-> EMPTY, steps |-> 0,
                  visited |-> {}, repeated |-> FALSE, broke |-> FALSE,
                  overflow_checks |-> overflow_checks]
    /\ engine = None
    /\ ordering = None
    /\ quiescing = None
    /\ search = None
    /\ table = TranspositionTable_new(None, {})
    /\ inserted = << >>
    /\ probe = None
    /\ conversion = None
    /\ fen = None /\ aborted = FALSE /\ board = NoBoard
    /\ makes = 0 /\ unmakes = 0
    /\ script = << >> /\ script2 = << >> /\ board2 = NoBoard

\* one turn of the loop: the next subset, and the break on the empty one
LoadSubset ==
    /\ ~aborted
    /\ ~subset.broke
    /\ IF subset.overflow_checks /\ sub_overflows(subset.blocker_subset, subset.blockers)
       THEN /\ aborted' = TRUE
            /\ UNCHANGED subset
       ELSE /\ LET next == next_subset(subset.blocker_subset, subset.blockers)
               IN  subset' = [subset EXCEPT
                                !.blocker_subset = next,
                                !.steps = @ + 1,
                                !.repeated = @ \/ next \in subset.visited,
                                !.visited = @ \cup {next},
                                !.broke = next = EMPTY]
            /\ UNCHANGED aborted
    /\ UNCHANGED <<fen, board, counters, scripted, searching, engine, ordering, quiescing>>

NextSubset == LoadSubset

SpecSubset == InitSubset /\ [][NextSubset]_vars

\* 2^n
RECURSIVE PowerOfTwo(_)
PowerOfTwo(n) == IF n = 0 THEN 1 ELSE 2 * PowerOfTwo(n - 1)

\* C21: the walk from EMPTY never aborts, visits no subset twice, and is
\* back at EMPTY after exactly 2^popcount(set) steps, having visited every
\* subset of the set.
C21_EverySubsetOnce ==
    /\ ~aborted
    /\ ~subset.repeated
    /\ subset.visited \subseteq SUBSET subset.blockers
    /\ subset.broke <=> subset.steps = PowerOfTwo(Cardinality(subset.blockers))
    /\ subset.broke => subset.visited = SUBSET subset.blockers

\* ------------------------------------------------------------------------
\* order_moves as the search calls it: on the moves of a position with the
\* best move of a table entry, or none, and on its captures
\* ------------------------------------------------------------------------

\* the positions ordered are those up to MaxOrderPly moves from an input
MaxOrderPly == 1

OrderInputs == {FEN_PROMOTION, FEN_EN_PASSANT, FEN_ROOKS_FACE, FEN_KINGS}

\* a best move of a table entry that is none of the moves of the position
ForeignMove == Move(0, 0, "King", Quiet)

InitOrder ==
    /\ \E f \in OrderInputs :
        /\ fen = Some(f)
        /\ board = Board_new(f)
    /\ ordering = None
    /\ quiescing = None
    /\ subset = None
    /\ engine = None
    /\ search = None
    /\ aborted = FALSE
    /\ table = TranspositionTable_new(None, {})
    /\ inserted = << >>
    /\ probe = None
    /\ conversion = None
    /\ makes = 0 /\ unmakes = 0
    /\ script = << >> /\ script2 = << >> /\ board2 = NoBoard

\* a move is made before the position is ordered
OrderPlayOn ==
    /\ ordering = None
    /\ quiescing = None
    /\ Len(board.move_history) < MaxOrderPly
    /\ \E m \in Range(generate_moves(board)) : board' = make_move(board, m)
    /\ UNCHANGED <<fen, aborted, counters, scripted, searching, apart>>

\* alpha_beta orders the moves of the position
OrderMoves ==
    /\ ordering = None
    /\ quiescing = None
    /\ \E best_move \in {None, Some(ForeignMove)}
                        \cup {Some(m) : m \in Range(generate_moves(board))} :
        ordering' = [moves |-> generate_moves(board), best_move |-> best_move,
                     ordered |-> order_moves(generate_moves(board), best_move)]
    /\ UNCHANGED <<fen, aborted, board, counters, scripted, searching, subset, engine, quiescing>>

\* quiesce orders the captures of the position
OrderCaptures ==
    /\ ordering = None
    /\ quiescing = None
    /\ ordering' = [moves |-> generate_captures(board), best_move |-> None,
                    ordered |-> order_moves(generate_captures(board), None)]
    /\ UNCHANGED <<fen, aborted, board, counters, scripted, searching, subset, engine, quiescing>>

NextOrder == OrderPlayOn \/ OrderMoves \/ OrderCaptures

SpecOrder == InitOrder /\ [][NextOrder]_vars

\* the importance of a move by the rule: five times the value of the piece
\* taken less the value of the piece that takes, the value of the piece
\* promoted to added
RefImportance(m) ==
    LET value(piece) ==
            CASE piece = "Pawn" -> 100 [] piece = "Knight" -> 300 [] piece = "Bishop" -> 300
              [] piece = "Rook" -> 500 [] piece = "Queen" -> 900 [] piece = "King" -> 0
        tag == m.flag[1]
    IN  (CASE tag = "Capture" -> 5 * value(m.flag[2]) - value(m.piece)
           [] tag = "CapturePromotion" -> 5 * value(m.flag[2]) - value(m.piece)
           [] tag = "EnPassantCapture" -> 5 * value("Pawn") - value(m.piece)
           [] OTHER -> 0)
        + (CASE tag = "Promotion" -> value(m.flag[2])
             [] tag = "CapturePromotion" -> value(m.flag[3])
             [] OTHER -> 0)

\* how often the sequence holds the element
CountIn(seq, x) == Cardinality({i \in 1..Len(seq) : seq[i] = x})

MaxGo == 4

\* Searcher::get_search_control: a clone of the handle of the one flag the
\* Searcher holds, the same flag for every "go"
get_search_control(e) == e.search_control

InitEngine ==
    /\ engine = [search_control |-> FALSE, go |-> 0, searching |-> FALSE,
                 timers |-> {}, cleared_by |-> 0]
    /\ ordering = None
    /\ quiescing = None
    /\ subset = None
    /\ search = None
    /\ table = TranspositionTable_new(None, {})
    /\ inserted = << >>
    /\ probe = None
    /\ conversion = None
    /\ fen = None /\ aborted = FALSE /\ board = NoBoard
    /\ makes = 0 /\ unmakes = 0
    /\ script = << >> /\ script2 = << >> /\ board2 = NoBoard

\* "go": the flag is set to active, the timer thread is spawned and the
\* search is called; the loop reads no further command until it returns
Go ==
    /\ ~engine.searching
    /\ engine.go < MaxGo
    /\ engine' = [engine EXCEPT
                    !.search_control = TRUE,
                    !.go = @ + 1,
                    !.timers = @ \cup {engine.go + 1},
                    !.searching = TRUE,
                    !.cleared_by = 0]
    /\ UNCHANGED <<fen, aborted, board, counters, scripted, searching, subset, ordering, quiescing>>

\* the timer thread of a "go" wakes after its search time and sets the flag
\* to false
TimerFires ==
    /\ \E timer \in engine.timers :
        engine' = [engine EXCEPT
                    !.search_control = FALSE,
                    !.timers = @ \ {timer},
                    !.cleared_by = IF get_search_control(engine) THEN timer ELSE @]
    /\ UNCHANGED <<fen, aborted, board, counters, scripted, searching, subset, ordering, quiescing>>

\* the search finds the flag cleared at one of its checks and returns
SearchStopped ==
    /\ engine.searching
    /\ ~get_search_control(engine)
    /\ engine' = [engine EXCEPT !.searching = FALSE]
    /\ UNCHANGED <<fen, aborted, board, counters, scripted, searching, subset, ordering, quiescing>>

\* the search returns by itself: a forced mate is found, or there is no move
SearchReturns ==
    /\ engine.searching
    /\ get_search_control(engine)
    /\ engine' = [engine EXCEPT !.searching = FALSE]
    /\ UNCHANGED <<fen, aborted, board, counters, scripted, searching, subset, ordering, quiescing>>

NextEngine == Go \/ TimerFires \/ SearchStopped \/ SearchReturns

SpecEngine == InitEngine /\ [][NextEngine]_vars

\* C27: the flag a "go" set to active is cleared by the timer of that "go"
\* only, never by the timer of an earlier one.
C27_OnlyOwnTimerStops ==
    engine.cleared_by # 0 => engine.cleared_by = engine.go

\* ------------------------------------------------------------------------
\* Searcher::quiesce call by call: the board is the one board of the search,
\* each call that entered its loop has a frame with its locals
\* ------------------------------------------------------------------------

\* "k7/3R4/7b/8/8/8/3n4/4K3 w - - 0 1": the rook takes the knight, the bishop takes the rook, the king takes the bishop
FEN_THREE_CAPTURES ==
    <<"k", "7", "/", "3", "R", "4", "/", "7", "b", "/", "8", "/", "8", "/", "8", "/",
      "3", "n", "4", "/", "4", "K", "3", " ", "w", " ", "-", " ", "-", " ", "0", " ",
      "1">>

QuiesceInputs ==
    {FEN_THREE_CAPTURES, FEN_EP_NO_PAWN, FEN_EN_PASSANT, FEN_PROMOTION, FEN_ROOKS_FACE,
     FEN_CASTLE_ATTACKED}

\* the windows quiesce is called with
QuiesceWindows ==
    {<<-INFINITY, INFINITY>>, <<-INFINITY, DRAW>>, <<DRAW, INFINITY>>,
     <<-CHECKMATE, -CHECKMATE_THRESHOLD>>}

InitQuiesce ==
    /\ \E f \in QuiesceInputs : \E window \in QuiesceWindows :
        /\ fen = Some(f)
        /\ board = Board_new(f)
        /\ quiescing = [pc |-> "call", alpha |-> window[1], beta |-> window[2],
                        value |-> 0, frames |-> << >>,
                        called_on |-> Board_new(f), flagged |-> TRUE]
    /\ ordering = None
    /\ subset = None
    /\ engine = None
    /\ search = None
    /\ aborted = FALSE
    /\ table = TranspositionTable_new(None, {})
    /\ inserted = << >>
    /\ probe = None
    /\ conversion = None
    /\ makes = 0 /\ unmakes = 0
    /\ script = << >> /\ script2 = << >> /\ board2 = NoBoard

\* the head of quiesce: the evaluation, the return of beta on a score that
\* reaches it, and otherwise the ordered captures
QuiesceEnter ==
    /\ ~aborted
    /\ quiescing.pc = "call"
    /\ IF evaluate_panics(board) \/ generate_moves_panics(board)
       THEN /\ aborted' = TRUE
            /\ UNCHANGED quiescing
       ELSE /\ LET current_score == evaluate(board)
               IN  quiescing' =
                    IF current_score >= quiescing.beta
                    THEN [quiescing EXCEPT !.pc = "return", !.value = quiescing.beta]
                    ELSE [quiescing EXCEPT
                            !.pc = "loop",
                            !.frames = Append(@,
                                [alpha |-> ScoreMax(quiescing.alpha, current_score),
                                 beta |-> quiescing.beta,
                                 captures |-> order_moves(generate_captures(board), None),
                                 index |-> 1,
                                 pieces |-> PieceCount(board)])]
            /\ UNCHANGED aborted
    /\ UNCHANGED <<fen, board, counters, scripted, searching, subset, engine, ordering>>

\* the loop over the captures: the next one is made and quiesce is called
\* on it, or the list is used up and alpha is returned
QuiesceLoop ==
    /\ ~aborted
    /\ quiescing.pc = "loop"
    /\ LET frame == quiescing.frames[Len(quiescing.frames)]
       IN  IF frame.index > Len(frame.captures)
           THEN /\ quiescing' = [quiescing EXCEPT
                                    !.pc = "return",
                                    !.value = frame.alpha,
                                    !.frames = Pop(@)]
                /\ UNCHANGED board
           ELSE /\ board' = make_move(board, frame.captures[frame.index])
                /\ quiescing' = [quiescing EXCEPT
                                    !.pc = "call",
                                    !.alpha = WrapScore(-frame.beta),
                                    !.beta = WrapScore(-frame.alpha),
                                    !.flagged = @ /\ is_capture(frame.captures[frame.index])]
    /\ UNCHANGED <<fen, aborted, counters, scripted, searching, subset, engine, ordering>>

\* a call has returned to the loop that made it: the move is taken back and
\* the score cuts the loop off or raises alpha; the first call has returned
QuiesceReturn ==
    /\ ~aborted
    /\ quiescing.pc = "return"
    /\ IF quiescing.frames = << >>
       THEN /\ quiescing' = [quiescing EXCEPT !.pc = "done"]
            /\ UNCHANGED board
       ELSE /\ board' = unmake_move(board)
            /\ LET frame == quiescing.frames[Len(quiescing.frames)]
                   score == WrapScore(-quiescing.value)
               IN  quiescing' =
                    IF score >= frame.beta
                    THEN [quiescing EXCEPT !.value = frame.beta, !.frames = Pop(@)]
                    ELSE [quiescing EXCEPT
                            !.pc = "loop",
                            !.frames[Len(quiescing.frames)] =
                                [frame EXCEPT !.alpha = ScoreMax(frame.alpha, score),
                                              !.index = @ + 1]]
    /\ UNCHANGED <<fen, aborted, counters, scripted, searching, subset, engine, ordering>>

NextQuiesce == QuiesceEnter \/ QuiesceLoop \/ QuiesceReturn

SpecQuiesce == InitQuiesce /\ [][NextQuiesce]_vars

\* the pieces of one colour that are not its king
NonKingPieces(b, color) == Cardinality(b.colors[color] \ b.pieces["King"])

\* the moves quiesce has made and not yet taken back
QuiesceDepth == Len(board.move_history)

QuiesceBounded ==
    /\ quiescing.flagged
    /\ QuiesceDepth <= PieceCount(quiescing.called_on)
    /\ QuiesceDepth =
        IF quiescing.pc = "loop" THEN Len(quiescing.frames) - 1 ELSE Len(quiescing.frames)
    /\ Len(board.position_history) =
        Len(quiescing.called_on.position_history) + QuiesceDepth
    /\ quiescing.pc = "done" => quiescing.frames = << >>

\* what is left to do, call by call from the first: twice the captures a
\* frame has not finished, and one more while it has not made the next of
\* them; -1, above every other digit, for the call that has not reached its
\* loop; a last place
\* for a return that is still under way
QuiesceRank ==
    IF aborted \/ quiescing.pc = "done" THEN << >>
    ELSE LET k == Len(quiescing.frames)
             left(i) == Len(quiescing.frames[i].captures) - quiescing.frames[i].index + 1
             of_frames == [i \in 1..k |->
                            IF i = k /\ quiescing.pc = "loop"
                            THEN 2 * left(i) + 1 ELSE 2 * left(i)]
         IN  of_frames \o <<IF quiescing.pc = "call" THEN -1 ELSE 0>>
                       \o <<IF quiescing.pc = "return" THEN 1 ELSE 0>>

RankDigit(rank, i) == IF i <= Len(rank) THEN rank[i] ELSE 0

DigitLess(x, y) == IF y = -1 THEN x # -1 ELSE x # -1 /\ x < y

\* the order of the ranks from place i on: the first place that differs
\* decides; it is well-founded, for no call is deeper than QuiesceBounded
\* allows and so the ranks of one call of quiesce have a bounded length
RECURSIVE RankLess(_, _, _)
RankLess(a, b, i) ==
    IF i > Len(a) /\ i > Len(b) THEN FALSE
    ELSE IF RankDigit(a, i) = RankDigit(b, i) THEN RankLess(a, b, i + 1)
    ELSE DigitLess(RankDigit(a, i), RankDigit(b, i))

RECURSIVE RefMax(_, _, _)
RefMax(scores, i, best) ==
    IF i > Len(scores) THEN best
    ELSE RefMax(scores, i + 1, ScoreMax(best, scores[i]))

\* the evaluation, or the best of the captures if one of them is better
RECURSIVE RefQuiesce(_)
RefQuiesce(b) ==
    Let(generate_captures(b), LAMBDA captures :
        RefMax([i \in 1..Len(captures) |->
                    WrapScore(-RefQuiesce(make_move(b, captures[i])))],
               1, evaluate(b)))

RECURSIVE RefNegamax(_, _, _)
RefNegamax(b, depth, ply) ==
    IF is_drawable(b) THEN DRAW
    ELSE IF depth = 0 THEN RefQuiesce(b)
    ELSE Let(generate_moves(b), LAMBDA moves :
            IF moves = << >>
            THEN IF in_check(b) THEN -CHECKMATE + ply ELSE DRAW
            ELSE RefMax([i \in 1..Len(moves) |->
                            WrapScore(-RefNegamax(make_move(b, moves[i]), depth - 1, ply + 1))],
                        1, WrapScore(-INFINITY)))

\* C30: the score best_move pairs with a root move is the score of the
\* search without cutoffs and without a table, of the same depth, on the
\* position that move leads to from the board best_move was called on.
C30_PruningKeepsScores ==
    ~aborted /\ search.pc = "map" /\ search.pairs # << >> =>
        LET pair == search.pairs[Len(search.pairs)]
        IN  pair[2] =
                WrapScore(-RefNegamax(make_move(search.called_on, pair[1]), search.depth, 1))

====
